---- MODULE Spec2Model ----
(***************************************************************************)
(* Model of the issue pipeline of the matematyka application:              *)
(* value-map formatting (utils.py), randomization, additional-variable     *)
(* evaluation, answer-option building and the session workflow of          *)
(* StartIssueView / SubmitAnswerView / AnswerResultView (views.py).        *)
(*                                                                         *)
(* Strings.  A Python str is a record [k, v, f]:                           *)
(*   k = "num": float() accepts it; v is its value in units of 1/FloatUnit *)
(*              and f its spelling: "int" is str(int(x)) ("3"), "dec" is   *)
(*              str(float) ("3.0", "3.5"), "raw" is any other spelling of  *)
(*              the same number ("03", "3.50");                            *)
(*   k = "nan": float() accepts it and yields nan; f is "dec" for the      *)
(*              spelling str(float) gives ("nan"), "raw" for another one;  *)
(*   k = "txt": float() raises ValueError; f names the text.               *)
(* Names (dict keys) are sequences of tokens, so that endswith('_abs') and *)
(* f"{name}_abs" are computed and not assumed.                             *)
(***************************************************************************)
EXTENDS Integers, Sequences, FiniteSets, TLC

VARIABLES
    variables,      \* Variable rows, indexed by id
    additional,     \* AdditionalVariable rows, indexed by id
    issues,         \* Issue rows, indexed by id: [task, variable_is_random]
    used,           \* UsedVariable rows in order of creation
    user_answers,   \* UserAnswer rows in order of creation
    assigned,       \* AssignedTask rows
    session,        \* request.session: [issue_id, submitted_issue_id, selected_answer_id]
    resp,           \* what the last request was given and what it returned
    made,           \* history: what the creating request of each Issue returned
    rand_calls,     \* history: number of calls of randomize_variables
    edits,          \* history: number of changes made by the administrator
    fmt,            \* format_value_map under test: [pc, given, m, once, twice]
    rnd,            \* randomize_variables under test
    opt,            \* build_answer_options under test: [pc, task, value_map, first, second]
    cre,            \* a StartIssueView.get that is creating an Issue, statement by statement
    probe,          \* a function of the pipeline under test: [pc, arg, out]
    workers         \* the hint and result requests in flight, one per worker of the server

\* round(x, 4): the number of decimals kept (views.py:383, views.py:456)
RoundDigits == 4

\* one unit of a modelled float: one decimal more than round() keeps
FloatUnit == 10 ^ (RoundDigits + 1)

NumStr(v, f) == [k |-> "num", v |-> v, f |-> f]
TxtStr(t) == [k |-> "txt", v |-> 0, f |-> t]
NanStr(f) == [k |-> "nan", v |-> 0, f |-> f]
EmptyStr == TxtStr("")

\* float(s) succeeds
IsFloatStr(s) == s.k \in {"num", "nan"}

\* float.is_integer()
is_integer(s) == s.k = "num" /\ s.v % FloatUnit = 0

\* int(x): truncation toward zero
IntOf(v) == IF v >= 0 THEN (v \div FloatUnit) * FloatUnit
            ELSE 0 - (((0 - v) \div FloatUnit) * FloatUnit)

\* the two branches of the canonicalization swapped:
\* str(value) if value.is_integer() else str(int(value))
CanonStrSwapped(s) ==
    IF s.k = "nan" THEN NanStr("dec")
    ELSE IF is_integer(s) THEN NumStr(s.v, "dec") ELSE NumStr(IntOf(s.v), "int")

\* str(int(value)) if value.is_integer() else str(value)
CanonStr(s) ==
    IF s.k = "nan" THEN NanStr("dec")
    ELSE IF is_integer(s) THEN NumStr(s.v, "int") ELSE NumStr(s.v, "dec")

\* str(float(s)): the spelling UsedVariable.variable_value gets
StrOfFloat(s) == IF s.k = "nan" THEN NanStr("dec") ELSE NumStr(s.v, "dec")

\* k.endswith('_sign') or k.endswith('_abs')
IsSplitKey(k) == Len(k) > 0 /\ k[Len(k)] \in {"_sign", "_abs"}

\* f"{name}_sign", f"{name}_abs"
SignKey(name) == Append(name, "_sign")
AbsKey(name) == Append(name, "_abs")

\* dict item assignment d[k] = v
Put(d, k, v) == [x \in (DOMAIN d) \cup {k} |-> IF x = k THEN v ELSE d[x]]

EmptyMap == [x \in {} |-> EmptyStr]

\* given: the mapping as the caller had it; m: the caller's mapping now; once, twice:
\* what the first and the second call returned
FmtIdle == [pc |-> "idle", given |-> EmptyMap, m |-> EmptyMap, once |-> EmptyMap,
            twice |-> EmptyMap]

\* utils.format_value_map: the mapping it returns
format_value_map(value_map) ==
    [k \in DOMAIN value_map |->
        IF IsSplitKey(k) THEN value_map[k]
        ELSE IF IsFloatStr(value_map[k]) THEN CanonStr(value_map[k])
        ELSE value_map[k]]

\* utils.format_value_map, lines 41-46: the caller's mapping after the call.  The
\* function assigns value_map[k] and returns value_map: the mapping it returns is
\* the caller's.
MappingAfterFormat(value_map) == format_value_map(value_map)


----------------------------------------------------------------------------
(* Arithmetic on modelled floats (units of 1/FloatUnit).                   *)

Abs(x) == IF x < 0 THEN 0 - x ELSE x
Sgn(x) == IF x < 0 THEN 0 - 1 ELSE 1

\* x * y / FloatUnit for 0 <= x, y, computed without leaving 32 bits
MulAbs(x, y) ==
    LET xi == x \div FloatUnit
        xf == x % FloatUnit
        yi == y \div FloatUnit
        yf == y % FloatUnit
        yh == yf \div 1000
        yl == yf % 1000
    IN  xi * y + xf * yi + (((xf * yh) * 10 + (xf * yl) \div 100) \div 1000)

MulFloat(x, y) == Sgn(x) * Sgn(y) * MulAbs(Abs(x), Abs(y))

\* the weight of the last digit round(x, 4) keeps
RoundStep == FloatUnit \div (10 ^ RoundDigits)

\* round(x, 4), ties to even
RoundFloat(x) ==
    LET a == Abs(x)
        q == a \div RoundStep
        r == a % RoundStep
        up == (2 * r > RoundStep) \/ (2 * r = RoundStep /\ q % 2 = 1)
    IN  Sgn(x) * (IF up THEN q + 1 ELSE q) * RoundStep

----------------------------------------------------------------------------
(* The task definitions the store starts with.                             *)

One == FloatUnit
Num(h, f) == NumStr(h * (FloatUnit \div 2), f)

NoGroup == ""

\* Task 1: a and b share the uniqueness group "g"; c = a*b is derived and split.
\* Task 2: a, a variable whose name ends in _abs and is drawn from a range, a derived
\*         variable d, and an answer option with a placeholder zz that no variable has.
Tasks == {1, 2}

InitVariables == <<
    [id |-> 1, task |-> 1, name |-> <<"a">>, original_value |-> Num(8, "int"),
     choices |-> <<Num(2, "int"), Num(4, "int")>>,
     min_value |-> 0, max_value |-> 0, step |-> 0,
     unique_group |-> "g", split_sign |-> FALSE],
    [id |-> 2, task |-> 1, name |-> <<"b">>, original_value |-> Num(5, "dec"),
     choices |-> <<Num(2, "int")>>,
     min_value |-> 0, max_value |-> 0, step |-> 0,
     unique_group |-> "g", split_sign |-> TRUE],
    [id |-> 3, task |-> 2, name |-> <<"a">>, original_value |-> Num(2, "raw"),
     choices |-> <<Num(2, "int"), Num(3, "dec")>>,
     min_value |-> 0, max_value |-> 0, step |-> 0,
     unique_group |-> NoGroup, split_sign |-> FALSE],
    [id |-> 4, task |-> 2, name |-> <<"x", "_abs">>, original_value |-> Num(6, "int"),
     choices |-> <<>>,
     min_value |-> One, max_value |-> One, step |-> One,
     unique_group |-> NoGroup, split_sign |-> FALSE] >>

InitAdditional == <<
    [id |-> 1, task |-> 1, name |-> <<"c">>, formula |-> "a*b", split_sign |-> TRUE],
    [id |-> 2, task |-> 2, name |-> <<"d">>, formula |-> "a-a", split_sign |-> FALSE] >>

\* AnswerOption rows.  content is the text of the option: holes are the names of its
\* {{ placeholders }}, text is the rest of it (for a numeric option, the formula).
AnswerOptions == <<
    [id |-> 1, task |-> 1, content |-> [text |-> "a*b", holes |-> <<>>],
     is_correct |-> TRUE, display_format |-> "numeric"],
    [id |-> 2, task |-> 1,
     content |-> [text |-> "{{}}{{}}{{}}", holes |-> <<<<"c">>, <<"b", "_sign">>, <<"b", "_abs">>>>],
     is_correct |-> FALSE, display_format |-> "symbolic"],
    [id |-> 3, task |-> 2,
     content |-> [text |-> "{{}}{{}}{{}}", holes |-> <<<<"d">>, <<"zz">>, <<"x", "_abs">>>>],
     is_correct |-> TRUE, display_format |-> "symbolic"] >>

\* Task.content, a template
TaskContent(task) ==
    CASE task = 1 -> [text |-> "{{}}{{}}{{}}{{}}{{}}",
                      holes |-> <<<<"a">>, <<"b">>, <<"c">>, <<"c", "_sign">>, <<"c", "_abs">>>>]
      [] OTHER    -> [text |-> "{{}}{{}}{{}}", holes |-> <<<<"a">>, <<"x", "_abs">>, <<"d">>>>]

\* sympify(formula): the expression a formula text parses to
Sympify(formula) ==
    CASE formula = "a*b"  -> [op |-> "mul", l |-> <<"a">>, r |-> <<"b">>]
      [] formula = "a+b"  -> [op |-> "add", l |-> <<"a">>, r |-> <<"b">>]
      [] formula = "a-a"  -> [op |-> "sub", l |-> <<"a">>, r |-> <<"a">>]
      [] formula = "a+zz" -> [op |-> "add", l |-> <<"a">>, r |-> <<"zz">>]
      [] formula = "c+a"  -> [op |-> "add", l |-> <<"c">>, r |-> <<"a">>]
      [] OTHER            -> [op |-> "add", l |-> <<"a">>, r |-> <<"a">>]

\* the Variables of the task as they would be had each start saved the values it used:
\* original_value is the value of the Variable's latest UsedVariable row
VariablesAsLastUsed(task) ==
    LET vs == SelectSeq(variables, LAMBDA v : v.task = task)
        rows(v) == { i \in DOMAIN used : used[i].variable = v.id }
        last(v) == CHOOSE i \in rows(v) : \A j \in rows(v) : j <= i
    IN  [n \in DOMAIN vs |->
            IF rows(vs[n]) = {} THEN vs[n]
            ELSE [vs[n] EXCEPT !.original_value = used[last(vs[n])].variable_value]]

\* Variable.objects.filter(task=task), AdditionalVariable.objects.filter(task=task),
\* AnswerOption.objects.filter(task=task)
VariablesOf(task) == SelectSeq(variables, LAMBDA v : v.task = task)
AdditionalOf(task) == SelectSeq(additional, LAMBDA a : a.task = task)
AnswerOptionsOf(task) == SelectSeq(AnswerOptions, LAMBDA o : o.task = task)

----------------------------------------------------------------------------
(* StartIssueView.randomize_variables                                      *)

\* while attempts < max_attempts (views.py:470)
max_attempts == 1000

Range(seq) == { seq[i] : i \in DOMAIN seq }

\* np.arange(min_value, max_value + step, step), each str(round(var, 4)).
\* without_value is no field of Variable: getattr() gives [] and nothing is excluded.
RangeChoices(v) ==
    IF v.step <= 0 \/ v.max_value + v.step <= v.min_value THEN <<>>
    ELSE LET span == v.max_value + v.step - v.min_value
             n == (span + v.step - 1) \div v.step
         IN  [k \in 1..n |-> NumStr(RoundFloat(v.min_value + (k - 1) * v.step), "dec")]

\* choices_dict[variable.id]
ChoicesOf(v) == IF Len(v.choices) > 0 THEN v.choices ELSE RangeChoices(v)

\* the variables of group g, and the groups in the order groups.items() gives them
GroupVars(vs, g) == SelectSeq(vs, LAMBDA v : v.unique_group = g)
IsFirstOfGroup(vs, i) ==
    /\ vs[i].unique_group # NoGroup
    /\ \A j \in 1..(i - 1) : vs[j].unique_group # vs[i].unique_group
GroupOrder(vs) ==
    LET firsts == SelectSeq([i \in DOMAIN vs |-> [i |-> i, v |-> vs[i]]],
                            LAMBDA e : IsFirstOfGroup(vs, e.i))
    IN  [k \in DOMAIN firsts |-> firsts[k].v.unique_group]

\* the draws that take each value from the candidates of all the variables of vs
DrawsFromPooledChoices(vs) ==
    LET ids == { vs[i].id : i \in DOMAIN vs }
        all == UNION { Range(ChoicesOf(vs[i])) : i \in DOMAIN vs }
    IN  [ids -> all]

\* one random.choice(choices_dict[variable.id]) per variable of vs
Draws(vs) ==
    LET ids == { vs[i].id : i \in DOMAIN vs }
        byId(id) == CHOOSE v \in Range(vs) : v.id = id
        all == UNION { Range(ChoicesOf(vs[i])) : i \in DOMAIN vs }
    IN  { f \in [ids -> all] : \A id \in ids : f[id] \in Range(ChoicesOf(byId(id))) }

\* the uniqueness test with the comparison dropped: any draw is accepted
AnyDraw(values) == TRUE

\* len(set(values.values())) == len(values)
UniqueDraw(values) ==
    Cardinality({ values[id] : id \in DOMAIN values }) = Cardinality(DOMAIN values)

Merge(f, g) == [x \in (DOMAIN f) \cup (DOMAIN g) |-> IF x \in DOMAIN g THEN g[x] ELSE f[x]]

NoValues == [x \in {} |-> EmptyStr]

GroupIds(vs, g) == { v.id : v \in Range(GroupVars(vs, g)) }
HasUniqueDraw(vs, g) == \E d \in Draws(GroupVars(vs, g)) : UniqueDraw(d)
HasRepeatedDraw(vs, g) == \E d \in Draws(GroupVars(vs, g)) : ~UniqueDraw(d)

\* What one call of randomize_variables over the variables vs can do: return with
\* values (variable id -> new original_value), or raise: IndexError from
\* random.choice([]), or the Exception naming the group whose attempts ran out.
RandomizeOutcomes(vs) ==
    LET order == GroupOrder(vs)
        HasEmpty(g) == \E v \in Range(GroupVars(vs, g)) : ChoicesOf(v) = <<>>
        Reached(n) == \A j \in 1..(n - 1) : HasUniqueDraw(vs, order[j])
    IN  IF HasEmpty(NoGroup)
        THEN { [raised |-> TRUE, error |-> "IndexError", values |-> NoValues] }
        ELSE { [raised |-> FALSE, error |-> "", values |-> f] :
                 f \in { d \in Draws(vs) :
                           \A g \in Range(order) :
                              UniqueDraw([id \in GroupIds(vs, g) |-> d[id]]) } }
             \cup
             { [raised |-> TRUE, error |-> order[k], values |-> NoValues] :
                 k \in { n \in DOMAIN order :
                           HasRepeatedDraw(vs, order[n]) /\ Reached(n) } }
             \cup
             { [raised |-> TRUE, error |-> "IndexError", values |-> NoValues] :
                 k \in { n \in DOMAIN order : HasEmpty(order[n]) /\ Reached(n) } }

\* variable.original_value = ... on the objects randomize_variables returns
WithValues(vs, values) ==
    [i \in DOMAIN vs |-> [vs[i] EXCEPT !.original_value = values[vs[i].id]]]

\* while attempts < max_attempts
AttemptsLeft(attempts) == attempts < max_attempts

(* randomize_variables step by step: rnd is                                *)
(*   [pc, vs, groups, attempts, draws, values, error]                      *)
(* vs: the variables; groups: the groups still to draw, the first one      *)
(* being in its while loop; attempts: the loop's counter; draws: how often *)
(* the loop drew for the current group; values: original_value set so far. *)

RndIdle == [pc |-> "idle", vs |-> <<>>, groups |-> <<>>, attempts |-> 0, draws |-> 0,
            values |-> NoValues, error |-> ""]

\* lines 446-467: choices_dict, the groups, and the draws of the ungrouped variables
RandBegin ==
    /\ rnd.pc = "start"
    /\ IF \E v \in Range(GroupVars(rnd.vs, NoGroup)) : ChoicesOf(v) = <<>>
       THEN rnd' = [rnd EXCEPT !.pc = "raised", !.error = "IndexError"]
       ELSE \E d \in Draws(GroupVars(rnd.vs, NoGroup)) :
              rnd' = [rnd EXCEPT !.pc = IF GroupOrder(rnd.vs) = <<>> THEN "done" ELSE "loop",
                                 !.groups = GroupOrder(rnd.vs),
                                 !.attempts = 0, !.draws = 0,
                                 !.values = d]
    /\ UNCHANGED <<variables, additional, issues, used, user_answers, assigned, session,
                   resp, made, rand_calls, edits, fmt, opt,
                   cre, probe, workers>>

\* lines 472-483: one pass of the while loop of the first group still to draw
RandAttempt ==
    /\ rnd.pc = "loop"
    /\ AttemptsLeft(rnd.attempts)
    /\ LET gv == GroupVars(rnd.vs, Head(rnd.groups))
       IN  IF \E v \in Range(gv) : ChoicesOf(v) = <<>>
           THEN rnd' = [rnd EXCEPT !.pc = "raised", !.error = "IndexError"]
           ELSE \E d \in Draws(gv) :
                  IF UniqueDraw(d)
                  THEN rnd' = [rnd EXCEPT !.values = Merge(rnd.values, d),
                                          !.groups = Tail(rnd.groups),
                                          !.draws = IF Tail(rnd.groups) = <<>> THEN rnd.draws + 1 ELSE 0,
                                          !.attempts = IF Tail(rnd.groups) = <<>> THEN rnd.attempts ELSE 0,
                                          !.pc = IF Tail(rnd.groups) = <<>> THEN "done" ELSE "loop"]
                  ELSE rnd' = [rnd EXCEPT !.attempts = rnd.attempts + 1,
                                          !.draws = rnd.draws + 1]
    /\ UNCHANGED <<variables, additional, issues, used, user_answers, assigned, session,
                   resp, made, rand_calls, edits, fmt, opt,
                   cre, probe, workers>>

\* lines 484-485: the while loop's else clause
RandExhausted ==
    /\ rnd.pc = "loop"
    /\ ~AttemptsLeft(rnd.attempts)
    /\ rnd' = [rnd EXCEPT !.pc = "raised", !.error = Head(rnd.groups)]
    /\ UNCHANGED <<variables, additional, issues, used, user_answers, assigned, session,
                   resp, made, rand_calls, edits, fmt, opt,
                   cre, probe, workers>>

----------------------------------------------------------------------------
(* Value maps of an Issue: rebuilt from its UsedVariable rows, or built    *)
(* while the Issue is created.                                             *)

\* UsedVariable.objects.filter(issue=issue)
UsedOfIssue(id) == SelectSeq(used, LAMBDA u : u.issue = id)

NoSplit == [has |-> FALSE, sign |-> EmptyStr, abs |-> EmptyStr]

\* UsedVariable.split_map: the sign and the magnitude of the row's value when the
\* row is flagged for the split, nothing otherwise
split_map(u) ==
    IF u.split /\ u.variable_value.k = "num"
    THEN [has |-> TRUE,
          sign |-> IF u.variable_value.v < 0 THEN TxtStr("-")
                   ELSE IF u.variable_value.v > 0 THEN TxtStr("+") ELSE EmptyStr,
          abs |-> CanonStr(NumStr(Abs(u.variable_value.v), "dec"))]
    ELSE NoSplit

RECURSIVE PutValues(_, _)
\* {used.variable_name: used.variable_value for used in used_variables}
PutValues(rows, m) ==
    IF rows = <<>> THEN m
    ELSE PutValues(Tail(rows), Put(m, Head(rows).variable_name, Head(rows).variable_value))

RECURSIVE PutSplits(_, _)
\* for used in used_variables: if split: value_map[name_sign], value_map[name_abs] = ...
PutSplits(rows, m) ==
    IF rows = <<>> THEN m
    ELSE LET split == split_map(Head(rows))
             name == Head(rows).variable_name
         IN  PutSplits(Tail(rows),
                       IF split.has
                       THEN Put(Put(m, SignKey(name), split.sign), AbsKey(name), split.abs)
                       ELSE m)

\* the value map of an existing Issue (resume, grading): rows, splits, formatting
ValueMapOfUsed(rows) == format_value_map(PutSplits(rows, PutValues(rows, EmptyMap)))

\* {k: v for k, v in value_map.items() if not k.endswith('_sign') and not k.endswith('_abs')}
numerical_value_map(value_map) ==
    [k \in { x \in DOMAIN value_map : ~IsSplitKey(x) } |-> value_map[k]]

\* substitutions = {...: float(v) ...} raises ValueError
SubstitutionsRaise(value_map) ==
    \E k \in DOMAIN numerical_value_map(value_map) : ~IsFloatStr(value_map[k])

\* Template(content).render(Context(value_map)): a name the context lacks renders as ''
Render(content, value_map) ==
    [text |-> content.text,
     vals |-> [i \in DOMAIN content.holes |->
                 IF content.holes[i] \in DOMAIN value_map THEN value_map[content.holes[i]]
                 ELSE EmptyStr]]

NoText == [text |-> "", vals |-> <<>>]

OptIdle == [pc |-> "idle", task |-> 0, value_map |-> EmptyMap, first |-> <<>>, second |-> <<>>]

\* answer_options.append({'id': ..., 'content': ..., 'is_correct': ..., 'format': ...})
OptionRecord(opts, i, value_map) ==
    [id |-> opts[i].id,
     content |-> Render(opts[i].content, value_map),
     is_correct |-> opts[i].is_correct,
     format |-> opts[i].display_format]

\* the list build_answer_options has before it shuffles
BuiltOptions(opts, value_map) == [i \in DOMAIN opts |-> OptionRecord(opts, i, value_map)]

\* a shuffle that moves the contents and leaves the correctness flags in place
ShufflesContentsOnly(list) ==
    LET n == Len(list)
        perms == { p \in [1..n -> 1..n] : \A i, j \in 1..n : p[i] = p[j] => i = j }
    IN  { [i \in 1..n |-> [list[p[i]] EXCEPT !.is_correct = list[i].is_correct]] : p \in perms }

\* random.shuffle(answer_options): every order
Shuffles(list) ==
    LET n == Len(list)
        perms == { p \in [1..n -> 1..n] : \A i, j \in 1..n : p[i] = p[j] => i = j }
    IN  { [i \in 1..n |-> list[p[i]]] : p \in perms }

\* the lists build_answer_options can return
build_answer_options(opts, value_map) == Shuffles(BuiltOptions(opts, value_map))

\* the value of a parsed formula over the value map; ok is FALSE when a name of the
\* formula is left unresolved and float(N(evaluated)) raises TypeError
Evaluate(expr, value_map) ==
    LET nm == numerical_value_map(value_map)
        known(n) == n \in DOMAIN nm /\ nm[n].k = "num"
    IN  IF ~(known(expr.l) /\ known(expr.r)) THEN [ok |-> FALSE, v |-> 0]
        ELSE [ok |-> TRUE,
              v |-> CASE expr.op = "mul" -> MulFloat(nm[expr.l].v, nm[expr.r].v)
                      [] expr.op = "sub" -> nm[expr.l].v - nm[expr.r].v
                      [] OTHER           -> nm[expr.l].v + nm[expr.r].v]

\* value_map[variable.name] of the creation path: the canonical spelling
FormattedOf(v) == IF IsFloatStr(v.original_value) THEN CanonStr(v.original_value)
                  ELSE v.original_value

\* variable_value=str(value) of the creation path: value is the float when there is one
StoredOf(v) == IF IsFloatStr(v.original_value) THEN StrOfFloat(v.original_value)
               ELSE v.original_value

\* the base rows written for the Issue the session names instead of the new one
BaseRowsOfSessionIssue(id, vs) ==
    LET at == IF session.issue_id \in DOMAIN issues THEN session.issue_id ELSE id
    IN  [i \in DOMAIN vs |->
            [issue |-> at, task |-> vs[i].task, variable |-> vs[i].id,
             additional_variable |-> 0, variable_name |-> vs[i].name,
             variable_value |-> StoredOf(vs[i]), split |-> vs[i].split_sign]]

\* UsedVariable.objects.create(...) for each variable of the task (lines 321-328);
\* the row's split flag is the variable's
BaseRows(id, vs) ==
    [i \in DOMAIN vs |->
        [issue |-> id, task |-> vs[i].task, variable |-> vs[i].id, additional_variable |-> 0,
         variable_name |-> vs[i].name, variable_value |-> StoredOf(vs[i]),
         split |-> vs[i].split_sign]]

RECURSIVE BaseMap(_, _)
\* value_map[variable.name] = formatted, in the order of the variables
BaseMap(vs, m) ==
    IF vs = <<>> THEN m ELSE BaseMap(Tail(vs), Put(m, Head(vs).name, FormattedOf(Head(vs))))

\* the result written as str() writes a float: str(numeric_result)
FormattedResultStr(numeric_result) == NumStr(numeric_result, "dec")

\* lines 387-390: str(int(numeric_result)) if numeric_result.is_integer() else
\* str(numeric_result)
FormattedResult(numeric_result) == CanonStr(NumStr(numeric_result, "dec"))

\* the result kept out of the value map
StoreResultDropped(value_map, name, formatted) == value_map

\* line 392: value_map[add_var.name] = formatted
StoreResult(value_map, name, formatted) == Put(value_map, name, formatted)

RECURSIVE SolveAll(_, _, _)
\* the for loop of build_solutions_map: st is [value_map, rows, raised, error]
SolveAll(id, avs, st) ==
    IF avs = <<>> \/ st.raised THEN st
    ELSE LET add_var == Head(avs)
             res == Evaluate(Sympify(add_var.formula), st.value_map)
             numeric_result == RoundFloat(res.v)
         IN  IF ~res.ok
             THEN [st EXCEPT !.raised = TRUE, !.error = "TypeError"]
             ELSE SolveAll(id, Tail(avs),
                    [st EXCEPT
                       !.value_map = StoreResult(st.value_map, add_var.name,
                                                 FormattedResult(numeric_result)),
                       !.rows = Append(st.rows,
                          [issue |-> id, task |-> add_var.task, variable |-> 0,
                           additional_variable |-> add_var.id,
                           variable_name |-> add_var.name,
                           variable_value |-> NumStr(numeric_result, "dec"),
                           split |-> add_var.split_sign])])

\* build_solutions_map: the loop, the splits of the new rows, formatting, substitutions
build_solutions_map(id, avs, value_map) ==
    LET st == SolveAll(id, avs, [value_map |-> value_map, rows |-> <<>>,
                                 raised |-> FALSE, error |-> ""])
        vm == format_value_map(PutSplits(st.rows, st.value_map))
    IN  IF st.raised THEN st
        ELSE IF SubstitutionsRaise(vm)
             THEN [st EXCEPT !.value_map = vm, !.raised = TRUE, !.error = "ValueError"]
             ELSE [st EXCEPT !.value_map = vm]

\* the creation path of StartIssueView.get from line 302 on, for the variables vs
\* (the task's, or the randomized ones): [value_map, rows, raised, error]
CreateIssueValues(id, task, vs) ==
    LET base == BaseRows(id, vs)
        vm == format_value_map(PutSplits(base, BaseMap(vs, EmptyMap)))
        sol == build_solutions_map(id, AdditionalOf(task), vm)
    IN  [sol EXCEPT !.rows = base \o sol.rows]

----------------------------------------------------------------------------
(* The requests.  Ids are positive; 0 stands for None / an absent key.     *)

\* bound: the number of Issue rows the store may hold
MaxIssues == 2

\* request.user, which the session carries: 0 is the anonymous user
Users == {0, 1}

\* bound: the number of changes an administrator makes to the definitions
MaxEdits == 1

\* request.POST.get('answer'): no answer, the id of an option, or an id of no option
NoSuchOption == Len(AnswerOptions) + 1
PostedAnswers == 0..NoSuchOption

NoResp == [op |-> "none", status |-> "none", error |-> "", task |-> 0, issue |-> 0,
           resumed |-> FALSE, value_map |-> EmptyMap, description |-> NoText,
           answer_options |-> <<>>, is_correct |-> FALSE, posted |-> 0,
           random |-> FALSE]

NoMade == [ok |-> FALSE, value_map |-> EmptyMap, description |-> NoText, options |-> {},
           variables |-> <<>>, additional |-> <<>>]

\* the (id, content, is_correct) triples of a list of option records
Triples(list) == { <<list[i].id, list[i].content, list[i].is_correct>> : i \in DOMAIN list }

\* the resume test comparing the Issue's Task object with the id of the request
\* (existing_issue.task == task_id), which never holds
ResumableTaskObject(task) ==
    /\ session.issue_id # 0
    /\ session.issue_id \in DOMAIN issues
    /\ <<"Task", issues[session.issue_id].task>> = <<"int", task>>

\* the resume test without the comparison of the tasks
ResumableAnyTask(task) ==
    /\ session.issue_id # 0
    /\ session.issue_id \in DOMAIN issues

\* the resume test that also accepts the Issue that was submitted
ResumableSubmitted(task) ==
    \/ /\ session.issue_id # 0
       /\ session.issue_id \in DOMAIN issues
       /\ issues[session.issue_id].task = task
    \/ /\ session.submitted_issue_id \in DOMAIN issues
       /\ issues[session.submitted_issue_id].task = task

\* lines 265-269: the session names an Issue that exists and belongs to the task
Resumable(task) ==
    /\ session.issue_id # 0
    /\ session.issue_id \in DOMAIN issues
    /\ issues[session.issue_id].task = task

\* StartIssueView.get, lines 265-290 and 351-362: the Issue of the session is resumed
ResumeIssue(task) ==
    LET id == session.issue_id
        value_map == ValueMapOfUsed(UsedOfIssue(id))
    IN  /\ Resumable(task)
        /\ IF SubstitutionsRaise(value_map)
           THEN resp' = [NoResp EXCEPT !.op = "start", !.status = "raised", !.task = task,
                                       !.error = "ValueError", !.issue = id, !.resumed = TRUE]
           ELSE \E opts \in build_answer_options(AnswerOptionsOf(task), value_map) :
                  resp' = [NoResp EXCEPT !.op = "start", !.status = "ok", !.task = task,
                                         !.issue = id, !.resumed = TRUE,
                                         !.value_map = value_map,
                                         !.description = Render(TaskContent(task), value_map),
                                         !.answer_options = opts]
        /\ UNCHANGED <<variables, additional, issues, used, user_answers, assigned, session,
                       made, rand_calls, edits, fmt, rnd, opt,
                   cre, probe, workers>>

\* the Issue row with the flag left at the default of the field
IssueRowDefault(task, random_param) == [task |-> task, variable_is_random |-> FALSE]

\* line 294: Issue.objects.create(task=task, variable_is_random=random_param)
IssueRow(task, random_param) == [task |-> task, variable_is_random |-> random_param]

\* StartIssueView.get, lines 292-362: a new Issue is created.  A request that raises
\* answers 500 and its session is not saved; the rows it created stay.
CreateIssue(task, random_param) ==
    LET id == Len(issues) + 1
        row == IssueRow(task, random_param)
    IN  /\ ~Resumable(task)
        /\ Len(issues) < MaxIssues
        /\ issues' = Append(issues, row)
        /\ rand_calls' = IF random_param THEN rand_calls + 1 ELSE rand_calls
        /\ \E out \in IF random_param THEN RandomizeOutcomes(VariablesOf(task))
                      ELSE { [raised |-> FALSE, error |-> "", values |-> NoValues] } :
             IF out.raised
             THEN /\ resp' = [NoResp EXCEPT !.op = "start", !.random = random_param, !.status = "raised", !.task = task,
                                            !.error = out.error, !.issue = id]
                  /\ made' = Append(made, NoMade)
                  /\ UNCHANGED <<used, session>>
             ELSE LET vs == IF random_param THEN WithValues(VariablesOf(task), out.values)
                            ELSE VariablesOf(task)
                      res == CreateIssueValues(id, task, vs)
                  IN  /\ used' = used \o res.rows
                      /\ IF res.raised
                         THEN /\ resp' = [NoResp EXCEPT !.op = "start", !.random = random_param, !.status = "raised",
                                                        !.task = task, !.error = res.error,
                                                        !.issue = id]
                              /\ made' = Append(made, NoMade)
                              /\ UNCHANGED session
                         ELSE \E opts \in build_answer_options(AnswerOptionsOf(task), res.value_map) :
                                /\ resp' = [NoResp EXCEPT
                                              !.op = "start", !.random = random_param, !.status = "ok", !.task = task,
                                              !.issue = id,
                                              !.value_map = res.value_map,
                                              !.description = Render(TaskContent(task), res.value_map),
                                              !.answer_options = opts]
                                /\ made' = Append(made,
                                              [ok |-> TRUE, value_map |-> res.value_map,
                                               description |-> Render(TaskContent(task), res.value_map),
                                               options |-> Triples(opts),
                                               variables |-> VariablesOf(task),
                                               additional |-> AdditionalOf(task)])
                                /\ session' = [session EXCEPT !.issue_id = id]
        /\ UNCHANGED <<variables, additional, user_answers, assigned, edits, fmt, rnd, opt,
                   cre, probe, workers>>

\* the session with the active reference read and left in place:
\* session['submitted_issue_id'] = session.get('issue_id')
SubmittedSessionGet(s, answer) ==
    [s EXCEPT !.submitted_issue_id = s.issue_id, !.selected_answer_id = answer]

\* lines 548-549: session['submitted_issue_id'] = session.pop('issue_id', None);
\* session['selected_answer_id'] = selected_answer_id
SubmittedSession(s, answer) ==
    [s EXCEPT !.issue_id = 0, !.submitted_issue_id = s.issue_id,
              !.selected_answer_id = answer]

\* SubmitAnswerView.post
SubmitAnswer == \E answer \in PostedAnswers :
    /\ session' = SubmittedSession(session, answer)
    /\ resp' = [NoResp EXCEPT !.op = "submit", !.status = "redirect", !.posted = answer]
    /\ UNCHANGED <<variables, additional, issues, used, user_answers, assigned,
                   made, rand_calls, edits, fmt, rnd, opt, cre, probe, workers>>

\* the index of the UserAnswer row of (user, issue), 0 when there is none
UserAnswerIndex(rows, user, issue) ==
    LET hits == { i \in DOMAIN rows : rows[i].user = user /\ rows[i].issue = issue }
    IN  IF hits = {} THEN 0 ELSE CHOOSE i \in hits : \A j \in hits : i <= j

\* UserAnswer.objects.get_or_create(user=user, issue=issue): the rows afterwards
GetOrCreateUserAnswer(rows, user, issue) ==
    IF UserAnswerIndex(rows, user, issue) # 0 THEN rows
    ELSE Append(rows, [user |-> user, issue |-> issue, used_hint |-> FALSE,
                       answer_options |-> {}, answered |-> FALSE])

\* AnswerOption.objects.get(id=selected_answer_id) finds a row
OptionExists(id) == id \in { AnswerOptions[i].id : i \in DOMAIN AnswerOptions }

\* the filter without the task: AnswerOption.objects.filter(is_correct=True).first()
CorrectAnswerAnyTask(task) ==
    LET hits == { i \in DOMAIN AnswerOptions : AnswerOptions[i].is_correct }
    IN  IF hits = {} THEN 0 ELSE AnswerOptions[CHOOSE i \in hits : \A j \in hits : i <= j].id

\* AnswerOption.objects.filter(task=task, is_correct=True).first(): its id, 0 for None
CorrectAnswer(task) ==
    LET hits == { i \in DOMAIN AnswerOptions :
                    AnswerOptions[i].task = task /\ AnswerOptions[i].is_correct }
    IN  IF hits = {} THEN 0 ELSE AnswerOptions[CHOOSE i \in hits : \A j \in hits : i <= j].id

\* the filter without the user: the first open assignment of the task, of any user
OpenAssignmentAnyUser(user, task) ==
    LET hits == { i \in DOMAIN assigned :
                    assigned[i].task = task /\ ~assigned[i].is_completed }
    IN  IF hits = {} THEN 0 ELSE CHOOSE i \in hits : \A j \in hits : i <= j

\* AssignedTask.objects.filter(user=user, task=task, is_completed=False).first(): its index
OpenAssignment(user, task) ==
    LET hits == { i \in DOMAIN assigned :
                    assigned[i].user = user /\ assigned[i].task = task
                    /\ ~assigned[i].is_completed }
    IN  IF hits = {} THEN 0 ELSE CHOOSE i \in hits : \A j \in hits : i <= j

\* AnswerResultView.get, lines 557-561: the session names no Issue that exists
AnswerResultNoIssue ==
    /\ ~(session.submitted_issue_id \in DOMAIN issues)
    /\ resp' = [NoResp EXCEPT !.op = "result", !.status = "error",
                              !.error = "Brak aktywnego zadania"]
    /\ UNCHANGED <<variables, additional, issues, used, user_answers, assigned, session,
                   made, rand_calls, edits, fmt, rnd, opt,
                   cre, probe, workers>>

\* AnswerResultView.get, lines 571-598: no answer was selected, or one of no option
AnswerResultInvalid(user) ==
    LET id == session.submitted_issue_id
        selected == session.selected_answer_id
    IN  /\ id \in DOMAIN issues
        /\ selected = 0 \/ ~OptionExists(selected)
        /\ user_answers' = GetOrCreateUserAnswer(user_answers, user, id)
        /\ resp' = [NoResp EXCEPT !.op = "result", !.status = "error", !.issue = id,
                                  !.task = issues[id].task,
                                  !.error = IF selected = 0
                                            THEN "Musisz zaznaczyc odpowiedz przed wyslaniem!"
                                            ELSE "Wybrana odpowiedz nie istnieje!"]
        /\ UNCHANGED <<variables, additional, issues, used, assigned, session,
                       made, rand_calls, edits, fmt, rnd, opt,
                   cre, probe, workers>>

\* AnswerResultView.get, lines 571-674: the selected option is graded
AnswerResultGraded(user) ==
    LET id == session.submitted_issue_id
        selected == session.selected_answer_id
        task == issues[id].task
        rows == GetOrCreateUserAnswer(user_answers, user, id)
        at == UserAnswerIndex(rows, user, id)
        is_correct == (selected = CorrectAnswer(task))
        value_map == ValueMapOfUsed(UsedOfIssue(id))
        open == OpenAssignment(user, task)
    IN  /\ id \in DOMAIN issues
        /\ selected # 0 /\ OptionExists(selected)
        /\ user_answers' = [rows EXCEPT ![at].answered = TRUE,
                                        ![at].answer_options = {selected}]
        /\ IF SubstitutionsRaise(value_map)
           THEN /\ resp' = [NoResp EXCEPT !.op = "result", !.status = "raised", !.issue = id,
                                          !.task = task, !.error = "ValueError"]
                /\ UNCHANGED assigned
           ELSE /\ \E opts \in build_answer_options(AnswerOptionsOf(task), value_map) :
                     resp' = [NoResp EXCEPT !.op = "result", !.status = "ok", !.issue = id,
                                            !.task = task, !.value_map = value_map,
                                            !.description = Render(TaskContent(task), value_map),
                                            !.answer_options = opts,
                                            !.is_correct = is_correct]
                /\ assigned' = IF is_correct /\ open # 0
                               THEN [assigned EXCEPT ![open].is_completed = TRUE]
                               ELSE assigned
        /\ UNCHANGED <<variables, additional, issues, used, session,
                       made, rand_calls, edits, fmt, rnd, opt,
                   cre, probe, workers>>

\* GetHintView.get
GetHint(user) ==
    LET id == session.issue_id
        rows == GetOrCreateUserAnswer(user_answers, user, id)
        at == UserAnswerIndex(rows, user, id)
    IN  /\ user_answers' = IF id \in DOMAIN issues
                           THEN [rows EXCEPT ![at].used_hint = TRUE]
                           ELSE user_answers
        /\ resp' = [NoResp EXCEPT !.op = "hint", !.status = "ok"]
        /\ UNCHANGED <<variables, additional, issues, used, assigned, session,
                       made, rand_calls, edits, fmt, rnd, opt,
                   cre, probe, workers>>

\* Solution.content of the task that has a Solution, a template; task 2 has none
SolutionTasks == {1}
SolutionContent(task) == [text |-> "{{}}{{}}{{}}", holes |-> <<<<"a">>, <<"c">>, <<"b", "_abs">>>>]

\* GetSolutionView.get: the Solution of the task rendered with the values of the
\* Issue that was submitted; nothing is written
GetSolution(task) ==
    LET id == session.submitted_issue_id
        value_map == ValueMapOfUsed(UsedOfIssue(id))
    IN  /\ resp' = IF task \in SolutionTasks
                   THEN [NoResp EXCEPT !.op = "solution", !.status = "ok", !.task = task,
                                       !.issue = id, !.value_map = value_map,
                                       !.description = Render(SolutionContent(task), value_map)]
                   ELSE [NoResp EXCEPT !.op = "solution", !.status = "error", !.task = task,
                                       !.error = "Brak rozwiazania dla tego zadania"]
        /\ UNCHANGED <<variables, additional, issues, used, user_answers, assigned, session,
                       made, rand_calls, edits, fmt, rnd, opt,
                   cre, probe, workers>>

\* The definitions an administrator may give a Variable or an AdditionalVariable
\* later (admin.py registers both models).
AltVariables == <<
    [InitVariables[1] EXCEPT !.original_value = Num(6, "int"),
                             !.choices = <<>>,
                             !.min_value = 3 * One, !.max_value = 4 * One, !.step = One],
    InitVariables[2],
    InitVariables[3],
    InitVariables[4] >>

AltFormula(id) == IF id = 1 THEN "a+b" ELSE "a+zz"

\* VariableAdmin: a Variable is given its other definition
EditVariable == \E i \in DOMAIN variables :
    /\ edits < MaxEdits
    /\ edits' = edits + 1
    /\ AltVariables[i] # InitVariables[i]
    /\ variables' = [variables EXCEPT
                       ![i] = IF variables[i] = InitVariables[i] THEN AltVariables[i]
                              ELSE InitVariables[i]]
    /\ resp' = [NoResp EXCEPT !.op = "admin", !.status = "ok"]
    /\ UNCHANGED <<additional, issues, used, user_answers, assigned, session,
                   made, rand_calls, fmt, rnd, opt,
                   cre, probe, workers>>

\* AdditionalVariableAdmin: an AdditionalVariable is given its other formula
EditFormula == \E i \in DOMAIN additional :
    /\ edits < MaxEdits
    /\ edits' = edits + 1
    /\ additional' = [additional EXCEPT
                        ![i].formula = IF additional[i].formula = InitAdditional[i].formula
                                       THEN AltFormula(i) ELSE InitAdditional[i].formula]
    /\ resp' = [NoResp EXCEPT !.op = "admin", !.status = "ok"]
    /\ UNCHANGED <<variables, issues, used, user_answers, assigned, session,
                   made, rand_calls, fmt, rnd, opt,
                   cre, probe, workers>>

vars == <<variables, additional, issues, used, user_answers, assigned, session,
          resp, made, rand_calls, edits, fmt, rnd, opt, cre, probe, workers>>

\* no creation is running
CreIdle == [pc |-> "idle", task |-> 0, id |-> 0, random_param |-> FALSE, session |-> <<>>,
            variables |-> <<>>, todo |-> <<>>, value_map |-> EmptyMap]

\* the hint and result requests of the session that the workers of the server take
\* at the same time; each is taken once
Workers == {1, 2}

NoWorker == [pc |-> "idle", op |-> "none", user |-> 0, issue |-> 0, selected |-> 0,
             at |-> 0, obj |-> <<>>]

\* a request that was answered
WorkerDone == [NoWorker EXCEPT !.pc = "done"]

\* no request is in flight
NoWorkers == [r \in Workers |-> NoWorker]

\* no function is under test
ProbeIdle == [pc |-> "idle", arg |-> <<>>, out |-> <<>>]

NoSession == [user |-> 0, issue_id |-> 0, submitted_issue_id |-> 0, selected_answer_id |-> 0]

InitAssigned == << [user |-> 1, task |-> 1, is_completed |-> FALSE] >>

\* the id of an Issue that an administrator deleted (IssueAdmin): no row has it
StaleIssue == MaxIssues + 1

\* the store and the session before any request; the session's issue_id is one of ids
StoreInitWith(ids) ==
    /\ variables = InitVariables
    /\ additional = InitAdditional
    /\ issues = <<>>
    /\ used = <<>>
    /\ user_answers = <<>>
    /\ assigned = InitAssigned
    /\ \E user \in Users, id \in ids :
         session = [NoSession EXCEPT !.user = user, !.issue_id = id]
    /\ resp = NoResp
    /\ made = <<>>
    /\ rand_calls = 0
    /\ edits = 0
    /\ cre = CreIdle
    /\ workers = NoWorkers

\* a new session: no issue_id
StoreInit == StoreInitWith({0})

Init ==
    /\ StoreInit
    /\ probe = ProbeIdle
    /\ fmt = FmtIdle
    /\ rnd = RndIdle
    /\ opt = OptIdle

Next ==
    \/ \E task \in Tasks : ResumeIssue(task)
    \/ \E task \in Tasks, random_param \in BOOLEAN : CreateIssue(task, random_param)
    \/ SubmitAnswer
    \/ AnswerResultNoIssue
    \/ AnswerResultInvalid(session.user)
    \/ AnswerResultGraded(session.user)

\* the requests of one session: start, submit, result
Spec == Init /\ [][Next]_vars

\* the session still names an Issue that was deleted
StaleInit ==
    /\ StoreInitWith({StaleIssue})
    /\ fmt = FmtIdle
    /\ rnd = RndIdle
    /\ opt = OptIdle
    /\ probe = ProbeIdle

\* the requests of one session that starts with the id of a deleted Issue
SpecStale == StaleInit /\ [][Next]_vars

HintNext == Next \/ GetHint(session.user)

\* the requests of one session, hints included
SpecHint == Init /\ [][HintNext]_vars

ReadNext == HintNext \/ \E task \in Tasks : GetSolution(task)

\* the requests of one session, hints and solutions included
SpecRead == Init /\ [][ReadNext]_vars

AdminNext == Next \/ EditVariable \/ EditFormula

\* the requests of one session, and an administrator changing definitions
SpecAdmin == Init /\ [][AdminNext]_vars

----------------------------------------------------------------------------
(* Specification SpecConc: the creation path of StartIssueView.get taken   *)
(* statement by statement, while the other requests of the session run.    *)
(* request.session is the request's own copy of the session: the session   *)
(* middleware stores it when the response is returned, and not when the    *)
(* request raises.                                                         *)

\* a session store that is written at the assignment itself
SavedSessionWriteThrough(s, id) == [s EXCEPT !.issue_id = id]

\* line 295, request.session['issue_id'] = issue.id: the stored session after it
SavedSessionAtAssign(s, id) == s

\* build_solutions_map is given no additional variable
NoAdditionalOf(task) == <<>>

\* line 302 and line 345: the additional variables build_solutions_map is given
AdditionalToSolve(task) == AdditionalOf(task)

\* lines 292-300: the Issue row, the session's issue_id, the variables
CreBegin(task, random_param) ==
    LET id == Len(issues) + 1
        row == IssueRow(task, random_param)
    IN  /\ cre.pc = "idle"
        /\ ~Resumable(task)
        /\ Len(issues) < MaxIssues
        /\ issues' = Append(issues, row)
        /\ rand_calls' = IF random_param THEN rand_calls + 1 ELSE rand_calls
        /\ \E out \in IF random_param THEN RandomizeOutcomes(VariablesOf(task))
                      ELSE { [raised |-> FALSE, error |-> "", values |-> NoValues] } :
             IF out.raised
             THEN /\ resp' = [NoResp EXCEPT !.op = "start", !.random = random_param, !.status = "raised", !.task = task,
                                            !.error = out.error, !.issue = id]
                  /\ made' = Append(made, NoMade)
                  /\ UNCHANGED <<session, cre, workers>>
             ELSE /\ cre' = [pc |-> "base", task |-> task, id |-> id,
                             random_param |-> random_param,
                             session |-> [session EXCEPT !.issue_id = id],
                             variables |-> IF random_param
                                           THEN WithValues(VariablesOf(task), out.values)
                                           ELSE VariablesOf(task),
                             todo |-> <<>>, value_map |-> EmptyMap]
                  /\ session' = SavedSessionAtAssign(session, id)
                  /\ UNCHANGED <<resp, made>>
        /\ UNCHANGED <<variables, additional, used, user_answers, assigned, edits, fmt, rnd,
                       opt, probe, workers>>

\* lines 308-329: one pass of the loop over the variables
CreWriteBase ==
    /\ cre.pc = "base"
    /\ cre.variables # <<>>
    /\ used' = Append(used, BaseRows(cre.id, cre.variables)[1])
    /\ cre' = [cre EXCEPT !.variables = Tail(cre.variables),
                          !.value_map = Put(cre.value_map, Head(cre.variables).name,
                                            FormattedOf(Head(cre.variables)))]
    /\ UNCHANGED <<variables, additional, issues, user_answers, assigned, session, resp,
                   made, rand_calls, edits, fmt, rnd, opt, probe, workers>>

\* lines 333-339: the splits of the rows written, format_value_map
CreSplit ==
    /\ cre.pc = "base"
    /\ cre.variables = <<>>
    /\ cre' = [cre EXCEPT !.pc = "solve",
                          !.todo = AdditionalToSolve(cre.task),
                          !.value_map = format_value_map(
                                            PutSplits(UsedOfIssue(cre.id), cre.value_map))]
    /\ UNCHANGED <<variables, additional, issues, used, user_answers, assigned, session,
                   resp, made, rand_calls, edits, fmt, rnd, opt, probe, workers>>

\* build_solutions_map, lines 366-404: one pass of the loop over the additional variables
CreSolve ==
    /\ cre.pc = "solve"
    /\ cre.todo # <<>>
    /\ LET st == SolveAll(cre.id, <<Head(cre.todo)>>,
                          [value_map |-> cre.value_map, rows |-> <<>>,
                           raised |-> FALSE, error |-> ""])
       IN  IF st.raised
           THEN /\ resp' = [NoResp EXCEPT !.op = "start", !.random = cre.random_param, !.status = "raised",
                                          !.task = cre.task, !.error = st.error,
                                          !.issue = cre.id]
                /\ made' = Append(made, NoMade)
                /\ cre' = CreIdle
                /\ UNCHANGED used
           ELSE /\ used' = used \o st.rows
                /\ cre' = [cre EXCEPT !.todo = Tail(cre.todo), !.value_map = st.value_map]
                /\ UNCHANGED <<resp, made>>
    /\ UNCHANGED <<variables, additional, issues, user_answers, assigned, session,
                   rand_calls, edits, fmt, rnd, opt, probe, workers>>

\* the UsedVariable rows build_solutions_map created for the Issue
AdditionalRowsOf(id) == SelectSeq(UsedOfIssue(id), LAMBDA u : u.additional_variable # 0)

\* lines 407-421 and 349-362: the splits of the new rows, format_value_map, the
\* answer options, the page; the response carries the request's session to the store
CreFinish ==
    LET value_map == format_value_map(PutSplits(AdditionalRowsOf(cre.id), cre.value_map))
    IN  /\ cre.pc = "solve"
        /\ cre.todo = <<>>
        /\ cre' = CreIdle
        /\ IF SubstitutionsRaise(value_map)
           THEN /\ resp' = [NoResp EXCEPT !.op = "start", !.random = cre.random_param, !.status = "raised",
                                          !.task = cre.task, !.error = "ValueError",
                                          !.issue = cre.id]
                /\ made' = Append(made, NoMade)
                /\ UNCHANGED session
           ELSE \E opts \in build_answer_options(AnswerOptionsOf(cre.task), value_map) :
                  /\ resp' = [NoResp EXCEPT
                                !.op = "start", !.random = cre.random_param, !.status = "ok", !.task = cre.task,
                                !.issue = cre.id, !.value_map = value_map,
                                !.description = Render(TaskContent(cre.task), value_map),
                                !.answer_options = opts]
                  /\ made' = Append(made,
                                [ok |-> TRUE, value_map |-> value_map,
                                 description |-> Render(TaskContent(cre.task), value_map),
                                 options |-> Triples(opts),
                                 variables |-> VariablesOf(cre.task),
                                 additional |-> AdditionalOf(cre.task)])
                  /\ session' = cre.session
        /\ UNCHANGED <<variables, additional, issues, used, user_answers, assigned,
                       rand_calls, edits, fmt, rnd, opt, probe, workers>>

CreNext ==
    \/ \E task \in Tasks, random_param \in BOOLEAN : CreBegin(task, random_param)
    \/ CreWriteBase
    \/ CreSplit
    \/ CreSolve
    \/ CreFinish

\* the creating requests of one session, one after the other
SpecCre == Init /\ [][CreNext]_vars

ConcNext ==
    \/ CreNext
    \/ \E task \in Tasks : ResumeIssue(task)
    \/ SubmitAnswer
    \/ AnswerResultNoIssue
    \/ AnswerResultInvalid(session.user)
    \/ AnswerResultGraded(session.user)
    \/ GetHint(session.user)

\* a creating request statement by statement, and the other requests of the session
SpecConc == Init /\ [][ConcNext]_vars

\* the Issue has exactly one UsedVariable per Variable and one per AdditionalVariable
\* of its task, and no other
CompleteIssue(id) ==
    LET rows == UsedOfIssue(id)
        task == issues[id].task
    IN  /\ \A v \in Range(VariablesOf(task)) :
              Cardinality({ i \in DOMAIN rows : rows[i].variable = v.id }) = 1
        /\ \A a \in Range(AdditionalOf(task)) :
              Cardinality({ i \in DOMAIN rows : rows[i].additional_variable = a.id }) = 1
        /\ Len(rows) = Len(VariablesOf(task)) + Len(AdditionalOf(task))

\* taken statement by statement, the creation without random writes the rows and
\* returns the value map that CreateIssue does
CreAgreesWithCreateIssue ==
    \A id \in DOMAIN made :
       made[id].ok /\ ~issues[id].variable_is_random =>
          LET res == CreateIssueValues(id, issues[id].task, VariablesOf(issues[id].task))
          IN  /\ made[id].value_map = res.value_map
              /\ UsedOfIssue(id) = res.rows

----------------------------------------------------------------------------
(* Claims about the requests.                                              *)

\* the last request was a StartIssueView.get that resumed an Issue and rendered it
ResumedOk == resp.op = "start" /\ resp.status = "ok" /\ resp.resumed

\* the last request was an AnswerResultView.get that graded and rendered
GradedOk == resp.op = "result" /\ resp.status = "ok"

\* the contents of a list of option records
Contents(list) == { list[i].content : i \in DOMAIN list }

\* C1: resume reproducibility.  A StartIssueView.get that resumes the Issue of the
\* session yields the value map, the rendered description and the answer-option
\* contents that the request that created the Issue yielded.
C1_ResumeReproducibility ==
    ResumedOk /\ made[resp.issue].ok =>
        /\ resp.value_map = made[resp.issue].value_map
        /\ resp.description = made[resp.issue].description
        /\ Contents(resp.answer_options) = { t[2] : t \in made[resp.issue].options }

\* C2: randomization is never repeated for an existing Issue.  A StartIssueView.get
\* for task t, run while the session's issue_id references an existing Issue of t,
\* resumes: it calls randomize_variables no more, creates no Issue and no
\* UsedVariable, and leaves the session's issue_id as it was.
C2_NoRandomizationOnResume ==
    [][ \A t \in Tasks :
          ( /\ resp'.op = "start" /\ resp'.task = t
            /\ session.issue_id \in DOMAIN issues
            /\ issues[session.issue_id].task = t )
          => /\ rand_calls' = rand_calls
             /\ issues' = issues
             /\ used' = used
             /\ session'.issue_id = session.issue_id
             /\ resp'.resumed /\ resp'.issue = session.issue_id ]_vars

\* a randomized Issue was resumed and rendered, after one call of the randomizer
C2_Witness ==
    /\ ResumedOk
    /\ issues[resp.issue].variable_is_random
    /\ rand_calls = 1
    /\ Len(issues) = 1
    /\ session.issue_id = resp.issue

\* the definitions of the Issue's task were changed after the Issue was created
DefinitionsChanged(id) ==
    \/ VariablesOf(issues[id].task) # made[id].variables
    \/ AdditionalOf(issues[id].task) # made[id].additional

\* C3: grading uses frozen values.  When a definition of the task changed after the
\* Issue was created, the value map and the rendered description of
\* AnswerResultView.get are still those of the Issue at creation.
C3_GradingUsesFrozenValues ==
    GradedOk /\ made[resp.issue].ok /\ DefinitionsChanged(resp.issue) =>
        /\ resp.value_map = made[resp.issue].value_map
        /\ resp.description = made[resp.issue].description

\* a rendered text that is exactly the spelling s of a number
Spells(rendered, s) == rendered.text = "{{}}" /\ rendered.vals = <<s>>

\* C8: the content of a numeric answer option is the value of its formula over the
\* value map, spelled as an integer when the value is integral and as a decimal
\* otherwise.
C8_NumericOptionContent ==
    resp.op \in {"start", "result"} /\ resp.status = "ok" =>
        \A i \in DOMAIN resp.answer_options :
            LET o == resp.answer_options[i]
                src == CHOOSE a \in Range(AnswerOptions) : a.id = o.id
                val == Evaluate(Sympify(src.content.text), resp.value_map)
            IN  o.format = "numeric" /\ val.ok =>
                    Spells(o.content, CanonStr(NumStr(val.v, "dec")))

\* the names a task's formulas and answer options reference
FormulaNames(task) ==
    UNION { {Sympify(additional[i].formula).l, Sympify(additional[i].formula).r} :
              i \in { j \in DOMAIN additional : additional[j].task = task } }
OptionNames(task) ==
    UNION { Range(AnswerOptions[i].content.holes) :
              i \in { j \in DOMAIN AnswerOptions : AnswerOptions[j].task = task } }

\* C9: a formula or an answer option that references a name the value map lacks makes
\* the creation of the Issue fail; a created Issue has no such reference, and no
\* empty value stands for a name in an option's content.
C9_UnresolvedNameIsFatal ==
    resp.op = "start" /\ resp.status = "ok" /\ ~resp.resumed =>
        /\ FormulaNames(resp.task) \subseteq DOMAIN resp.value_map
        /\ OptionNames(resp.task) \subseteq DOMAIN resp.value_map
        /\ \A i \in DOMAIN resp.answer_options :
              \A j \in DOMAIN resp.answer_options[i].content.vals :
                  resp.answer_options[i].content.vals[j] # EmptyStr

\* C10: grading validation error.  An AnswerResultView.get that answers with the
\* error of a missing or unknown selected answer leaves the store as it was: no
\* UserAnswer is created or modified, no AssignedTask is marked completed.
C10_ValidationErrorMutatesNothing ==
    [][ ( /\ resp'.op = "result" /\ resp'.status = "error"
          /\ session.submitted_issue_id \in DOMAIN issues
          /\ session.selected_answer_id = 0 \/ ~OptionExists(session.selected_answer_id) )
        => /\ user_answers' = user_answers
           /\ assigned' = assigned
           /\ issues' = issues /\ used' = used ]_vars

\* the step is a StartIssueView.get
StartStep == resp'.op = "start" /\ (resp' # resp \/ issues' # issues)

\* the session names no Issue of the task: no issue_id, the id of no Issue, or the
\* id of an Issue of another task
ResumeMiss(task) ==
    \/ session.issue_id = 0
    \/ session.issue_id \notin DOMAIN issues
    \/ issues[session.issue_id].task # task

\* the errors the creation of an Issue of the task can raise by itself
CreationErrors(task) ==
    { out.error : out \in { o \in RandomizeOutcomes(VariablesOf(task)) : o.raised } }
    \cup {"TypeError", "ValueError"}

\* C11: resume miss.  A StartIssueView.get whose session holds no issue_id, the id of
\* no Issue, or the id of an Issue of another task is not failed by the miss: it
\* creates a new Issue of the requested task, and the session's issue_id is the new
\* id when the request returns its page (an error can only come from the creation).
C11_ResumeMiss ==
    [][ StartStep /\ ResumeMiss(resp'.task) =>
          /\ Len(issues') = Len(issues) + 1
          /\ SubSeq(issues', 1, Len(issues)) = issues
          /\ issues'[Len(issues')].task = resp'.task
          /\ ~resp'.resumed
          /\ resp'.issue = Len(issues')
          /\ resp'.status \in {"ok", "raised"}
          /\ resp'.status = "ok" => session'.issue_id = Len(issues')
          /\ resp'.status = "raised" => resp'.error \in CreationErrors(resp'.task) ]_vars

\* a session that named a deleted Issue got a new Issue, and then, asking for the
\* other task, another one
C11_Witness ==
    /\ Len(issues) = 2 /\ issues[1].task # issues[2].task
    /\ made[1].ok /\ made[2].ok
    /\ session.issue_id = 2 /\ session.submitted_issue_id = 0
    /\ resp.op = "start" /\ resp.status = "ok" /\ resp.issue = 2

\* the step is a SubmitAnswerView.post
SubmitStep == resp'.op = "submit" /\ (resp' # resp \/ session' # session)

\* C12: submit transition.  After SubmitAnswerView.post the session has no issue_id,
\* its submitted_issue_id is the issue_id it had before the request, and its
\* selected_answer_id is the posted answer.
C12_SubmitTransition ==
    [][ SubmitStep =>
          /\ session'.issue_id = 0
          /\ session'.submitted_issue_id = session.issue_id
          /\ session'.selected_answer_id = resp'.posted
          /\ session'.user = session.user ]_vars

\* an answer was posted for the active Issue
C12_Witness ==
    /\ resp.op = "submit" /\ resp.posted # 0
    /\ session.issue_id = 0
    /\ session.submitted_issue_id \in DOMAIN issues
    /\ session.selected_answer_id = resp.posted

\* C13: grading verdict.  When AnswerResultView.get returns its page, the UserAnswer of
\* (user, submitted Issue) holds the selected option, and is_correct is true exactly
\* when the selected option is flagged correct and is an option of the Issue's task.
C13_GradingVerdict ==
    GradedOk =>
        LET selected == session.selected_answer_id
            at == UserAnswerIndex(user_answers, session.user, resp.issue)
        IN  /\ resp.issue = session.submitted_issue_id
            /\ at # 0
            /\ user_answers[at].answer_options = {selected}
            /\ resp.is_correct <=>
                  \E i \in DOMAIN AnswerOptions :
                     /\ AnswerOptions[i].id = selected
                     /\ AnswerOptions[i].is_correct
                     /\ AnswerOptions[i].task = issues[resp.issue].task

\* the correct option of task 2 was selected and graded as correct, and after it the
\* correct option of another task was graded as wrong
C13_Witness ==
    /\ GradedOk
    /\ Len(issues) = 2 /\ issues[1].task = 2
    /\ \E i \in DOMAIN user_answers :
          user_answers[i].issue = 1 /\ user_answers[i].answer_options = {3}
    /\ resp.issue = 2 /\ ~resp.is_correct
    /\ session.selected_answer_id = 3

\* the step returns the page of an Issue that the request created
CreatedStep == resp'.op = "start" /\ resp'.status = "ok" /\ ~resp'.resumed /\ made' # made

\* C14: complete persistence on creation.  When StartIssueView.get builds the answer
\* options and renders the page of a new Issue, the Issue already has exactly one
\* UsedVariable per Variable and one per AdditionalVariable of the task, and the step
\* writes no further row.
C14_CompletePersistence ==
    [][ CreatedStep => CompleteIssue(resp'.issue) /\ used' = used ]_vars

\* a new Issue of a task with variables and an additional variable was rendered
C14_Witness ==
    /\ resp.op = "start" /\ resp.status = "ok" /\ ~resp.resumed
    /\ cre.pc = "idle"
    /\ resp.issue \in DOMAIN issues
    /\ CompleteIssue(resp.issue)
    /\ Len(UsedOfIssue(resp.issue)) >= 3
    /\ AdditionalRowsOf(resp.issue) # <<>>

\* the step is a request other than the creating one: a resume, a hint, a submit or
\* a grading
OtherRequestStep ==
    /\ resp'.op \in {"submit", "hint", "result"} \/ (resp'.op = "start" /\ resp'.resumed)
    /\ resp' # resp \/ session' # session \/ user_answers' # user_answers

\* C15: no partial issue is exposed.  Whatever request runs while StartIssueView.get
\* is creating an Issue, the Issue ids it can reach (the session's issue_id and
\* submitted_issue_id) are not the id of the Issue being created, and each of them
\* names an Issue whose UsedVariable rows are all written.
C15_NoPartialIssueExposed ==
    [][ OtherRequestStep =>
          \A id \in {session.issue_id, session.submitted_issue_id} \cap DOMAIN issues :
             /\ CompleteIssue(id)
             /\ ~(cre.pc # "idle" /\ cre.id = id) ]_vars

\* an Issue was resumed while another one had some of its rows written
C15_Witness ==
    /\ cre.pc \in {"base", "solve"}
    /\ UsedOfIssue(cre.id) # <<>>
    /\ ~CompleteIssue(cre.id)
    /\ ResumedOk
    /\ resp.issue # cre.id

\* C21 (Issue immutability): no request (start or resume, hint, submit, grading,
\* solution) changes the task or the variable_is_random of an Issue that exists, or
\* adds, changes or removes a UsedVariable row of it.
C21_IssueImmutability ==
    [][\A id \in DOMAIN issues :
          /\ id \in DOMAIN issues'
          /\ issues'[id] = issues[id]
          /\ UsedOfIssue(id)' = UsedOfIssue(id)]_vars

\* an Issue with rows was graded after a hint for it was taken, and a later start
\* made another Issue
C21_Witness ==
    /\ Len(issues) = 2
    /\ UsedOfIssue(1) # <<>>
    /\ \E i \in DOMAIN user_answers :
          user_answers[i].issue = 1 /\ user_answers[i].used_hint /\ user_answers[i].answered
    /\ resp.op = "solution" /\ resp.status = "ok" /\ resp.issue = 1

\* two strings of the same value: the same number to float(), or the same text
SameValue(s1, s2) ==
    IF s1.k = "num" /\ s2.k = "num" THEN s1.v = s2.v ELSE s1.k = s2.k /\ s1.f = s2.f

\* the stored Variable of an id
VariableById(id) == variables[CHOOSE i \in DOMAIN variables : variables[i].id = id]

\* the UsedVariable rows of an Issue that belong to Variables of the task
BaseRowsOfIssue(rows, id) == SelectSeq(rows, LAMBDA u : u.issue = id /\ u.variable # 0)

\* C24 (Variable definitions read-only): no request of the session, a start with
\* random=true included, changes a stored Variable; so an Issue started without
\* random, also after randomized ones, gets one UsedVariable per Variable of the
\* task whose value is the Variable's stored original_value (the same value: the
\* row spells a number as str(float) does).
C24_VariablesReadOnly ==
    [][/\ variables' = variables
       /\ \A id \in DOMAIN issues' \ DOMAIN issues :
             ~issues'[id].variable_is_random =>
                LET rows == BaseRowsOfIssue(used', id)
                IN  /\ { rows[i].variable : i \in DOMAIN rows }
                         = { v.id : v \in Range(VariablesOf(issues'[id].task)) }
                    /\ \A i \in DOMAIN rows :
                          SameValue(rows[i].variable_value,
                                    VariableById(rows[i].variable).original_value)]_vars

\* a randomized Issue of a task got values other than the stored ones, and a later
\* Issue of the same task was started without random
C24_Witness ==
    /\ Len(issues) = 2
    /\ issues[1].variable_is_random /\ made[1].ok
    /\ ~issues[2].variable_is_random /\ made[2].ok
    /\ issues[2].task = issues[1].task
    /\ \E i \in DOMAIN used :
          /\ used[i].issue = 1 /\ used[i].variable # 0
          /\ ~SameValue(used[i].variable_value, VariableById(used[i].variable).original_value)
    /\ BaseRowsOfIssue(used, 2) # <<>>

\* C26 (the randomizer runs only when random is requested): a request that creates
\* an Issue with random=true sets variable_is_random and calls randomize_variables
\* once; a request that creates one without it leaves the flag false, does not call
\* randomize_variables, and writes for each Variable of the task a UsedVariable with
\* the Variable's stored original_value (the same value: the row spells a number as
\* str(float) does).  No other request calls randomize_variables.
C26_RandomizerOnlyOnRequest ==
    [][IF Len(issues') = Len(issues)
       THEN rand_calls' = rand_calls
       ELSE LET id == Len(issues')
                rows == BaseRowsOfIssue(used', id)
            IN  /\ resp'.op = "start" /\ ~resp'.resumed /\ resp'.issue = id
                /\ issues'[id].variable_is_random = resp'.random
                /\ resp'.random => rand_calls' = rand_calls + 1
                /\ ~resp'.random =>
                      /\ rand_calls' = rand_calls
                      /\ Len(rows) = Len(VariablesOf(issues'[id].task))
                      /\ \A i \in DOMAIN rows :
                            /\ rows[i].variable = VariablesOf(issues'[id].task)[i].id
                            /\ SameValue(rows[i].variable_value,
                                         VariablesOf(issues'[id].task)[i].original_value)]_vars

\* one Issue was created with random=true and one without, in either order; the
\* randomizer ran once
C26_Witness ==
    /\ Len(issues) = 2
    /\ issues[1].variable_is_random # issues[2].variable_is_random
    /\ rand_calls = 1
    /\ resp.op = "start" /\ ~resp.resumed /\ resp.status = "ok" /\ resp.issue = 2
    /\ resp.random = issues[2].variable_is_random

IncorrectAnswerLeftOpen ==
    /\ resp.op = "result" /\ resp.status = "ok" /\ ~resp.is_correct
    /\ session.user = assigned[1].user /\ resp.task = assigned[1].task
    /\ ~assigned[1].is_completed

\* C28 (a submitted Issue is never resumed): the session's issue_id changes only
\* when a submit removes it (and keeps it as submitted_issue_id) or when a start
\* sets it to the id of the Issue it has just created, an id no Issue had before; so
\* the id of a submitted Issue never becomes the issue_id again.  A start that
\* finds no issue_id, as after a submit, resumes nothing: it creates an Issue with a
\* new id.
C28_SubmittedNeverResumed ==
    [][/\ session'.issue_id # session.issue_id =>
             \/ /\ resp'.op = "submit"
                /\ session'.issue_id = 0
                /\ session'.submitted_issue_id = session.issue_id
             \/ /\ resp'.op = "start" /\ ~resp'.resumed
                /\ session'.issue_id = Len(issues) + 1
                /\ session'.issue_id \in DOMAIN issues' \ DOMAIN issues
       /\ (resp'.op = "start" /\ session.issue_id = 0) =>
             /\ ~resp'.resumed
             /\ Len(issues') = Len(issues) + 1
             /\ resp'.issue = Len(issues')
             /\ resp'.issue # session.submitted_issue_id
       /\ session'.issue_id # 0 => session'.issue_id # session'.submitted_issue_id]_vars

\* Issue 1 was submitted, and the next start for its task created Issue 2
C28_Witness ==
    /\ session.submitted_issue_id = 1
    /\ session.issue_id = 2
    /\ issues[2].task = issues[1].task
    /\ resp.op = "start" /\ ~resp.resumed /\ resp.status = "ok" /\ resp.issue = 2

\* C29 (an aborted creation leaves no partial Issue): when the creation path ends
\* with an error (the randomizer cannot draw, a formula does not evaluate), the store
\* holds no Issue row and no UsedVariable row of the attempt.
C29_AbortedCreationLeavesNothing ==
    (resp.op = "start" /\ resp.status = "raised" /\ ~resp.resumed) =>
        /\ resp.issue \notin DOMAIN issues
        /\ UsedOfIssue(resp.issue) = <<>>

\* an aborted creation changes nothing but the rows of its own attempt: the session
\* and the rows of the other Issues are as they were
AbortedCreationBesidesItsRows ==
    [][(resp'.op = "start" /\ resp'.status = "raised" /\ ~resp'.resumed) =>
          /\ session' = session
          /\ \A id \in DOMAIN issues :
                issues'[id] = issues[id] /\ UsedOfIssue(id)' = UsedOfIssue(id)]_vars

----------------------------------------------------------------------------
(* Specification SpecAnswers: GetHintView.get and AnswerResultView.get     *)
(* taken query by query, on the workers of the server.                     *)
(* get_or_create is a get() and, when it finds no row, a create(); the     *)
(* UserAnswer table has no unique constraint on (user, issue).             *)

\* the UserAnswer rows of (user, issue)
UserAnswersOf(user, issue) ==
    { i \in DOMAIN user_answers :
        user_answers[i].user = user /\ user_answers[i].issue = issue }

\* UserAnswer(user=user, issue=issue) as create() inserts it
NewUserAnswer(user, issue) ==
    [user |-> user, issue |-> issue, used_hint |-> FALSE, answer_options |-> {},
     answered |-> FALSE]

\* the first query of get_or_create: self.get(user=user, issue=issue).  Two rows
\* raise MultipleObjectsReturned and the request answers 500.
WorkerGet(r, op) ==
    LET id == IF op = "hint" THEN session.issue_id ELSE session.submitted_issue_id
        hits == UserAnswersOf(session.user, id)
        at == IF hits = {} THEN 0 ELSE CHOOSE i \in hits : \A j \in hits : i <= j
    IN  /\ workers[r].pc = "idle"
        /\ id \in DOMAIN issues
        /\ IF Cardinality(hits) > 1
           THEN /\ resp' = [NoResp EXCEPT !.op = op, !.status = "raised", !.issue = id,
                                          !.error = "MultipleObjectsReturned"]
                /\ workers' = [workers EXCEPT ![r] = WorkerDone]
           ELSE /\ workers' = [workers EXCEPT ![r] =
                                 [pc |-> IF hits = {} THEN "missed" ELSE "have",
                                  op |-> op, user |-> session.user, issue |-> id,
                                  selected |-> session.selected_answer_id, at |-> at,
                                  obj |-> IF hits = {} THEN <<>> ELSE user_answers[at]]]
                /\ UNCHANGED resp
        /\ UNCHANGED <<variables, additional, issues, used, user_answers, assigned, session,
                       made, rand_calls, edits, fmt, rnd, opt, cre, probe>>

\* the second query of get_or_create, after DoesNotExist: self.create(...)
WorkerCreate(r) ==
    LET w == workers[r]
        row == NewUserAnswer(w.user, w.issue)
    IN  /\ w.pc = "missed"
        /\ user_answers' = Append(user_answers, row)
        /\ workers' = [workers EXCEPT ![r].pc = "have", ![r].at = Len(user_answers) + 1,
                                      ![r].obj = row]
        /\ UNCHANGED <<variables, additional, issues, used, assigned, session, resp,
                       made, rand_calls, edits, fmt, rnd, opt, cre, probe>>

\* GetHintView.get, lines 503-511: user_answer.used_hint = True; user_answer.save().
\* save() writes the fields of the object the request holds; answer_options is a
\* table of its own.
WorkerHint(r) ==
    LET w == workers[r]
    IN  /\ w.pc = "have" /\ w.op = "hint"
        /\ user_answers' = [user_answers EXCEPT ![w.at] =
                               [w.obj EXCEPT !.used_hint = TRUE,
                                             !.answer_options = user_answers[w.at].answer_options]]
        /\ resp' = [NoResp EXCEPT !.op = "hint", !.status = "ok"]
        /\ workers' = [workers EXCEPT ![r] = WorkerDone]
        /\ UNCHANGED <<variables, additional, issues, used, assigned, session,
                       made, rand_calls, edits, fmt, rnd, opt, cre, probe>>

\* AnswerResultView.get, lines 577-674, with the UserAnswer the request holds
WorkerResult(r) ==
    LET w == workers[r]
        id == w.issue
        task == issues[id].task
        is_correct == (w.selected = CorrectAnswer(task))
        value_map == ValueMapOfUsed(UsedOfIssue(id))
        open == OpenAssignment(w.user, task)
    IN  /\ w.pc = "have" /\ w.op = "result"
        /\ workers' = [workers EXCEPT ![r] = WorkerDone]
        /\ IF w.selected = 0 \/ ~OptionExists(w.selected)
           THEN /\ resp' = [NoResp EXCEPT
                              !.op = "result", !.status = "error", !.issue = id,
                              !.task = task,
                              !.error = IF w.selected = 0
                                        THEN "Musisz zaznaczyc odpowiedz przed wyslaniem!"
                                        ELSE "Wybrana odpowiedz nie istnieje!"]
                /\ UNCHANGED <<user_answers, assigned>>
           ELSE /\ user_answers' = [user_answers EXCEPT ![w.at] =
                                       [w.obj EXCEPT !.answered = TRUE,
                                                     !.answer_options = {w.selected}]]
                /\ IF SubstitutionsRaise(value_map)
                   THEN /\ resp' = [NoResp EXCEPT !.op = "result", !.status = "raised",
                                                  !.issue = id, !.task = task,
                                                  !.error = "ValueError"]
                        /\ UNCHANGED assigned
                   ELSE /\ \E opts \in build_answer_options(AnswerOptionsOf(task), value_map) :
                             resp' = [NoResp EXCEPT
                                        !.op = "result", !.status = "ok", !.issue = id,
                                        !.task = task, !.value_map = value_map,
                                        !.description = Render(TaskContent(task), value_map),
                                        !.answer_options = opts, !.is_correct = is_correct]
                        /\ assigned' = IF is_correct /\ open # 0
                                       THEN [assigned EXCEPT ![open].is_completed = TRUE]
                                       ELSE assigned
        /\ UNCHANGED <<variables, additional, issues, used, session,
                       made, rand_calls, edits, fmt, rnd, opt, cre, probe>>

AnswersNext ==
    \/ \E task \in Tasks : CreateIssue(task, FALSE)
    \/ SubmitAnswer
    \/ \E r \in Workers, op \in {"hint", "result"} : WorkerGet(r, op)
    \/ \E r \in Workers : WorkerCreate(r)
    \/ \E r \in Workers : WorkerHint(r)
    \/ \E r \in Workers : WorkerResult(r)

\* the requests of one session that starts Issues with the stored values, and two
\* hint or result requests taken at the same time
SpecAnswers == Init /\ [][AnswersNext]_vars

\* C23 (UserAnswer get-or-create per (user, issue)): after any sequence and
\* interleaving of hint requests and gradings for one Issue by one user, or by the
\* anonymous user, the store holds at most one UserAnswer row for the pair.
C23_OneUserAnswerPerPair ==
    \A user \in Users, id \in DOMAIN issues : Cardinality(UserAnswersOf(user, id)) <= 1

----------------------------------------------------------------------------
(* Specification SpecRand: randomize_variables, step by step, over         *)
(* variable lists drawn from a bounded set.                                *)

\* bound: the largest candidate set of the drawn variables is "1", ..., "MaxChoices"
MaxChoices == 3

ChoiceSeq(n) == [k \in 1..n |-> Num(2 * k, "int")]

RandVar(id, name, choices, group) ==
    [id |-> id, task |-> 1, name |-> <<name>>, original_value |-> Num(0, "int"),
     choices |-> choices, min_value |-> 0, max_value |-> 0, step |-> 0,
     unique_group |-> group, split_sign |-> FALSE]

\* a variable without choices, drawn from the range min, min + 1, ..., max
RangeVar(id, name, min, max, group) ==
    [RandVar(id, name, <<>>, group) EXCEPT !.min_value = min * One, !.max_value = max * One,
                                           !.step = One]

RandConfigs ==
    \* two variables of one group
    { <<RandVar(1, "a", ChoiceSeq(n), "g"), RandVar(2, "b", ChoiceSeq(m), "g")>> :
        n \in 1..MaxChoices, m \in 1..MaxChoices }
    \* three variables of one group
    \cup { <<RandVar(1, "a", ChoiceSeq(n), "g"), RandVar(2, "b", ChoiceSeq(n), "g"),
             RandVar(3, "c", ChoiceSeq(n), "g")>> : n \in 1..MaxChoices }
    \* two groups and an ungrouped variable; "1" and "1.0" are different strings
    \cup { <<RandVar(1, "a", ChoiceSeq(n), "g"), RandVar(2, "e", ChoiceSeq(2), NoGroup),
             RandVar(3, "c", <<Num(2, "int"), Num(2, "dec")>>, "h"),
             RandVar(4, "b", ChoiceSeq(2), "g"),
             RangeVar(5, "d", 1, 1, "h")>> : n \in 1..MaxChoices }
    \* a member of a group whose range is empty (max_value < min_value)
    \cup { <<RandVar(1, "a", ChoiceSeq(2), "g"), RangeVar(2, "b", 1, 0, "g")>>,
           <<RangeVar(1, "a", 1, 0, NoGroup)>> }
    \cup { <<RandVar(1, "a", ChoiceSeq(n), "g"), RandVar(2, "b", ChoiceSeq(1), "g"),
             RangeVar(3, "c", 2, 0, "h")>> : n \in 1..2 }
    \* ranges: min=0, max=10, step=2, and a step that does not divide max - min
    \cup { <<[RangeVar(1, "a", 0, 10, NoGroup) EXCEPT !.step = 2 * One]>>,
           <<[RangeVar(1, "a", 0, 1, NoGroup) EXCEPT !.step = 3 * (One \div 10)]>> }
    \* the variables of the tasks of the store
    \cup { SelectSeq(InitVariables, LAMBDA v : v.task = t) : t \in Tasks }

RandInit ==
    /\ StoreInit
    /\ probe = ProbeIdle
    /\ fmt = FmtIdle
    /\ opt = OptIdle
    /\ \E vs \in RandConfigs : rnd = [RndIdle EXCEPT !.pc = "start", !.vs = vs]

RandNext == RandBegin \/ RandAttempt \/ RandExhausted

SpecRand == RandInit /\ [][RandNext]_vars

\* the loop runs on: the request's thread is not suspended for ever
FairSpecRand == RandInit /\ [][RandNext]_vars /\ WF_vars(RandNext)

\* the stepwise randomizer ends as RandomizeOutcomes says
RandAgreesWithOutcomes ==
    /\ rnd.pc = "done" =>
         [raised |-> FALSE, error |-> "", values |-> rnd.values] \in RandomizeOutcomes(rnd.vs)
    /\ rnd.pc = "raised" =>
         [raised |-> TRUE, error |-> rnd.error, values |-> NoValues] \in RandomizeOutcomes(rnd.vs)

\* C4: uniqueness-group invariant.  When randomize_variables returns, any two
\* variables that share a non-empty uniqueness group have different original_value.
C4_UniquenessGroupInvariant ==
    rnd.pc = "done" =>
        LET vs == WithValues(rnd.vs, rnd.values)
        IN  \A i, j \in DOMAIN vs :
               i # j /\ vs[i].unique_group # NoGroup
                     /\ vs[i].unique_group = vs[j].unique_group
               => vs[i].original_value # vs[j].original_value

\* the group {a: choices=[1,2,3], b: choices=[1,2,3]} was randomized
C4_Witness ==
    /\ rnd.pc = "done"
    /\ rnd.vs = <<RandVar(1, "a", ChoiceSeq(3), "g"), RandVar(2, "b", ChoiceSeq(3), "g")>>
    /\ rnd.values[1] = Num(4, "int") /\ rnd.values[2] = Num(6, "int")

GroupNamesOf(vs) == { vs[i].unique_group : i \in DOMAIN vs } \ {NoGroup}

\* C5: bounded rejection sampling.  Every group gets at most max_attempts draws, and
\* randomize_variables ends either with pairwise distinct values for every group or
\* with the error that names the group whose draws were all rejected.
C5_BoundedRejectionSampling ==
    /\ rnd.draws <= max_attempts
    /\ rnd.attempts <= max_attempts
    /\ rnd.pc = "raised" /\ rnd.groups # <<>> =>
         /\ rnd.error = Head(rnd.groups)
         /\ rnd.attempts = max_attempts
    /\ rnd.pc = "done" =>
         \A g \in GroupNamesOf(rnd.vs) :
            /\ GroupIds(rnd.vs, g) \subseteq DOMAIN rnd.values
            /\ UniqueDraw([id \in GroupIds(rnd.vs, g) |-> rnd.values[id]])

\* the same without the ending of an empty candidate set
RandBoundedButForEmptySets ==
    /\ rnd.draws <= max_attempts
    /\ rnd.attempts <= max_attempts
    /\ rnd.pc = "raised" /\ rnd.error # "IndexError" =>
         /\ rnd.error \in GroupNamesOf(rnd.vs)
         /\ rnd.error = Head(rnd.groups)
         /\ rnd.attempts = max_attempts /\ rnd.draws = max_attempts
    /\ rnd.pc = "raised" /\ rnd.error = "IndexError" =>
         \E i \in DOMAIN rnd.vs : ChoicesOf(rnd.vs[i]) = <<>>

\* randomize_variables ends
RandTerminates == <>(rnd.pc \in {"done", "raised"})

\* the strings of min, min + step, ..., up to and including max, written without a
\* decimal point when integer-valued
ExpectedRange(v) ==
    IF v.step <= 0 \/ v.max_value < v.min_value THEN {}
    ELSE { CanonStr(NumStr(v.min_value + k * v.step, "dec")) :
             k \in 0..((v.max_value - v.min_value) \div v.step) }

\* C16: range expansion.  For a Variable without choices the candidate set of
\* randomize_variables is exactly min, min + step, ..., up to and including max, each
\* as a canonical string: {"0","2","4","6","8","10"} for min=0, max=10, step=2.
C16_RangeExpansion ==
    rnd.pc \in {"loop", "done", "raised"} =>
        \A i \in DOMAIN rnd.vs :
           Len(rnd.vs[i].choices) = 0 =>
              Range(ChoicesOf(rnd.vs[i])) = ExpectedRange(rnd.vs[i])

\* the values of the candidate set, whatever their spelling, are those of the range
\* when the step divides max - min
RangeValuesWhenStepDivides ==
    rnd.pc \in {"loop", "done", "raised"} =>
        \A i \in DOMAIN rnd.vs :
           LET v == rnd.vs[i]
           IN  /\ Len(v.choices) = 0 /\ v.step > 0 /\ v.max_value >= v.min_value
               /\ (v.max_value - v.min_value) % v.step = 0
               => /\ { c.v : c \in Range(ChoicesOf(v)) } = { c.v : c \in ExpectedRange(v) }
                  /\ \A c \in Range(ChoicesOf(v)) : c.f = "dec"

\* C25 (candidate membership): when randomize_variables returns, every Variable,
\* in a uniqueness group or not, has an original_value that is an element of its own
\* candidate set (its choices, or the values of its range).
C25_CandidateMembership ==
    rnd.pc = "done" =>
        \A i \in DOMAIN rnd.vs :
           /\ rnd.vs[i].id \in DOMAIN rnd.values
           /\ WithValues(rnd.vs, rnd.values)[i].original_value \in Range(ChoicesOf(rnd.vs[i]))

\* variables with choices and with a range, in two groups and in none, were given
\* values: c and d, whose candidate sets are {"1", "1.0"} and {"1.0"}, got "1" and "1.0"
C25_Witness ==
    /\ rnd.pc = "done"
    /\ Len(rnd.vs) = 5
    /\ Len(rnd.vs[1].choices) = MaxChoices
    /\ rnd.values[1] = Num(6, "int") /\ rnd.values[4] = Num(2, "int")
    /\ rnd.values[3] = Num(2, "int") /\ rnd.values[5] = Num(2, "dec")

\* the value map StartIssueView.get builds from the variables randomize_variables
\* returned (lines 308-339): formatted values, splits, format_value_map
RandomizedValueMap ==
    LET vs == WithValues(rnd.vs, rnd.values)
    IN  format_value_map(PutSplits(BaseRows(1, vs), BaseMap(vs, EmptyMap)))

\* C30 (uniqueness survives formatting): for a randomized Issue the values of two
\* variables of one uniqueness group are still different in the formatted value map.
C30_UniquenessSurvivesFormatting ==
    rnd.pc = "done" =>
        \A i, j \in DOMAIN rnd.vs :
           (/\ i # j
            /\ rnd.vs[i].unique_group # NoGroup
            /\ rnd.vs[i].unique_group = rnd.vs[j].unique_group)
           => RandomizedValueMap[rnd.vs[i].name] # RandomizedValueMap[rnd.vs[j].name]

\* values of a group that are different numbers stay different in the value map
DistinctNumbersStayDistinct ==
    rnd.pc = "done" =>
        \A i, j \in DOMAIN rnd.vs :
           (/\ i # j
            /\ rnd.vs[i].unique_group # NoGroup
            /\ rnd.vs[i].unique_group = rnd.vs[j].unique_group
            /\ rnd.values[rnd.vs[i].id].v # rnd.values[rnd.vs[j].id].v)
           => RandomizedValueMap[rnd.vs[i].name] # RandomizedValueMap[rnd.vs[j].name]

----------------------------------------------------------------------------
(* Specification SpecOpts: build_answer_options called twice over the same *)
(* options and value map.                                                  *)

OptValues == { Num(h, f) : h \in {2, 5}, f \in {"int", "dec"} } \ { Num(5, "int") }

OptMaps ==
    { [k \in {<<"a">>, <<"b">>, <<"c">>, <<"d">>, <<"x", "_abs">>} |->
         CASE k = <<"a">> -> va [] k = <<"b">> -> vb [] k = <<"c">> -> vc
           [] OTHER -> vd] :
      va \in OptValues, vb \in OptValues, vc \in OptValues, vd \in OptValues }

OptInit ==
    /\ StoreInit
    /\ probe = ProbeIdle
    /\ fmt = FmtIdle
    /\ rnd = RndIdle
    /\ \E t \in Tasks, m \in OptMaps :
         opt = [OptIdle EXCEPT !.pc = "ready", !.task = t, !.value_map = m]

OptFirst ==
    /\ opt.pc = "ready"
    /\ \E l \in build_answer_options(AnswerOptionsOf(opt.task), opt.value_map) :
         opt' = [opt EXCEPT !.pc = "once", !.first = l]
    /\ UNCHANGED <<variables, additional, issues, used, user_answers, assigned, session,
                   resp, made, rand_calls, edits, fmt, rnd,
                   cre, probe, workers>>

OptSecond ==
    /\ opt.pc = "once"
    /\ \E l \in build_answer_options(AnswerOptionsOf(opt.task), opt.value_map) :
         opt' = [opt EXCEPT !.pc = "twice", !.second = l]
    /\ UNCHANGED <<variables, additional, issues, used, user_answers, assigned, session,
                   resp, made, rand_calls, edits, fmt, rnd,
                   cre, probe, workers>>

OptNext == OptFirst \/ OptSecond

SpecOpts == OptInit /\ [][OptNext]_vars

\* C7: shuffle non-leakage.  build_answer_options returns one record per
\* AnswerOption, and two calls over the same inputs return the same set of
\* (id, content, is_correct) triples: the flag and the content of an option do not
\* depend on the order.
C7_ShuffleNonLeakage ==
    opt.pc = "twice" =>
        /\ Len(opt.first) = Len(AnswerOptionsOf(opt.task))
        /\ Len(opt.second) = Len(AnswerOptionsOf(opt.task))
        /\ { opt.first[i].id : i \in DOMAIN opt.first }
             = { o.id : o \in Range(AnswerOptionsOf(opt.task)) }
        /\ Triples(opt.first) = Triples(opt.second)
        /\ \A i \in DOMAIN opt.first :
              \E o \in Range(AnswerOptionsOf(opt.task)) :
                 o.id = opt.first[i].id /\ o.is_correct = opt.first[i].is_correct

\* two calls over the options of task 1 returned them in different orders
C7_Witness ==
    /\ opt.pc = "twice"
    /\ opt.task = 1
    /\ opt.first # opt.second
    /\ Len(opt.first) = 2

----------------------------------------------------------------------------
(* Specification SpecSplit: utils.split_values_to_map applied to a value   *)
(* map and a list of variables.                                            *)

\* the sign of zero taken as that of a positive number, whatever the flag says
SignOfZeroPositive(value, always_positive_zero) ==
    IF value.k = "num" /\ value.v < 0 THEN TxtStr("-") ELSE TxtStr("+")

\* lines 11-18: znak
SignOf(value, always_positive_zero) ==
    IF value.k = "num" /\ value.v < 0 THEN TxtStr("-")
    ELSE IF value.k = "num" /\ value.v > 0 THEN TxtStr("+")
    ELSE IF always_positive_zero THEN TxtStr("+")
    ELSE EmptyStr

\* lines 20-25: abs_value_str
AbsStrOf(value) ==
    IF value.k = "nan" THEN NanStr("dec") ELSE CanonStr(NumStr(Abs(value.v), "dec"))

RECURSIVE split_values_to_map(_, _, _)
\* utils.split_values_to_map: [raised, value_map], value_map being the caller's
\* mapping as the call leaves it
split_values_to_map(value_map, variables_list, always_positive_zero) ==
    IF variables_list = <<>> THEN [raised |-> FALSE, value_map |-> value_map]
    ELSE LET var == Head(variables_list)
             value_str == IF var.name \in DOMAIN value_map THEN value_map[var.name]
                          ELSE NumStr(0, "int")
         IN  IF ~var.split_sign
             THEN split_values_to_map(value_map, Tail(variables_list), always_positive_zero)
             ELSE IF ~IsFloatStr(value_str)
             THEN [raised |-> TRUE, value_map |-> value_map]
             ELSE split_values_to_map(
                      Put(Put(Put(value_map, var.name, CanonStr(value_str)),
                              SignKey(var.name), SignOf(value_str, always_positive_zero)),
                          AbsKey(var.name), AbsStrOf(value_str)),
                      Tail(variables_list), always_positive_zero)

\* "-3.5", "-2", "0", "0.0", "3.0", "3.5", "1.50", "nan", "abc"
SplitValues ==
    { Num(0 - 7, "dec"), Num(0 - 4, "int"), Num(0, "int"), Num(0, "dec"), Num(6, "dec"),
      Num(7, "dec"), Num(3, "raw"), NanStr("dec"), TxtStr("abc") }

SplitNames == { <<"a">>, <<"b">> }

SplitMaps == UNION { [D -> SplitValues] : D \in SUBSET SplitNames }

SplitVariables ==
    { << [name |-> <<"a">>, split_sign |-> fa], [name |-> <<"b">>, split_sign |-> fb] >> :
        fa \in BOOLEAN, fb \in BOOLEAN }

SplitInit ==
    /\ StoreInit
    /\ fmt = FmtIdle
    /\ rnd = RndIdle
    /\ opt = OptIdle
    /\ \E m \in SplitMaps, vl \in SplitVariables, apz \in BOOLEAN :
         probe = [pc |-> "split",
                  arg |-> [value_map |-> m, variables_list |-> vl,
                           always_positive_zero |-> apz],
                  out |-> <<>>]

SplitCall ==
    /\ probe.pc = "split"
    /\ probe' = [probe EXCEPT
                   !.pc = "split done",
                   !.out = split_values_to_map(probe.arg.value_map,
                                               probe.arg.variables_list,
                                               probe.arg.always_positive_zero)]
    /\ UNCHANGED <<variables, additional, issues, used, user_answers, assigned, session,
                   resp, made, rand_calls, edits, fmt, rnd, opt, cre, workers>>

SplitNext == SplitCall

SpecSplit == SplitInit /\ [][SplitNext]_vars

\* the number a flagged variable has when the function is called: the float of its
\* entry, 0 when the map has no entry
SplitInput(var) ==
    IF var.name \in DOMAIN probe.arg.value_map THEN probe.arg.value_map[var.name]
    ELSE NumStr(0, "int")

\* C17: split derivation.  For every variable flagged split_sign whose value is a
\* number, split_values_to_map sets <name>_sign to "-" for a negative value, "+" for
\* a positive one, and for zero "+" if always_positive_zero is set and "" otherwise,
\* and sets <name>_abs to the absolute value, written without a decimal point when
\* it is integer-valued.
C17_SplitDerivation ==
    probe.pc = "split done" /\ ~probe.out.raised =>
        \A i \in DOMAIN probe.arg.variables_list :
           LET var == probe.arg.variables_list[i]
               x == SplitInput(var)
               m == probe.out.value_map
           IN  var.split_sign /\ x.k = "num" =>
                 /\ SignKey(var.name) \in DOMAIN m /\ AbsKey(var.name) \in DOMAIN m
                 /\ x.v < 0 => m[SignKey(var.name)] = TxtStr("-")
                 /\ x.v > 0 => m[SignKey(var.name)] = TxtStr("+")
                 /\ x.v = 0 /\ probe.arg.always_positive_zero
                      => m[SignKey(var.name)] = TxtStr("+")
                 /\ x.v = 0 /\ ~probe.arg.always_positive_zero
                      => m[SignKey(var.name)] = EmptyStr
                 /\ m[AbsKey(var.name)].k = "num"
                 /\ m[AbsKey(var.name)].v = (IF x.v < 0 THEN 0 - x.v ELSE x.v)
                 /\ m[AbsKey(var.name)].f
                      = (IF x.v % FloatUnit = 0 THEN "int" ELSE "dec")

\* -3.5 gave sign "-" and abs "3.5", and 0 with always_positive_zero gave "+" and "0"
C17_Witness ==
    /\ probe.pc = "split done" /\ ~probe.out.raised
    /\ probe.arg.always_positive_zero
    /\ \A i \in {1, 2} : probe.arg.variables_list[i].split_sign
    /\ DOMAIN probe.arg.value_map = SplitNames
    /\ probe.arg.value_map[<<"a">>] = Num(0 - 7, "dec")
    /\ probe.arg.value_map[<<"b">>] = Num(0, "dec")
    /\ probe.out.value_map[<<"a", "_sign">>] = TxtStr("-")
    /\ probe.out.value_map[<<"a", "_abs">>] = Num(7, "dec")
    /\ probe.out.value_map[<<"b", "_sign">>] = TxtStr("+")
    /\ probe.out.value_map[<<"b", "_abs">>] = Num(0, "int")

----------------------------------------------------------------------------
(* Specification SpecSolve: build_solutions_map applied to a value map and *)
(* a list of additional variables.                                         *)

\* "4", "1.5", "0.5", "-2" for a; "2.5", "0.00012", "3", "-0.5" for b
SolveValuesA == { Num(8, "int"), Num(3, "dec"), Num(1, "dec"), Num(0 - 4, "int") }
SolveValuesB == { Num(5, "dec"), NumStr(12, "dec"), Num(6, "int"), Num(0 - 1, "dec") }

SolveMaps ==
    { [k \in {<<"a">>, <<"b">>, <<"b", "_abs">>} |->
         CASE k = <<"a">> -> va [] k = <<"b">> -> vb [] OTHER -> AbsStrOf(vb)] :
      va \in SolveValuesA, vb \in SolveValuesB }

AddVar(id, name, formula) ==
    [id |-> id, task |-> 1, name |-> <<name>>, formula |-> formula, split_sign |-> FALSE]

SolveLists ==
    { <<AddVar(1, "c", "a*b")>>,
      <<AddVar(1, "c", "a*b"), AddVar(2, "e", "c+a")>>,
      <<AddVar(1, "c", "a+b"), AddVar(2, "e", "c+a")>>,
      <<AddVar(2, "e", "c+a"), AddVar(1, "c", "a*b")>>,
      <<AddVar(1, "c", "a*b"), AddVar(2, "e", "a+zz")>>,
      <<AddVar(1, "d", "a-a"), AddVar(2, "c", "a*b"), AddVar(3, "e", "c+a")>> }

SolveInit ==
    /\ StoreInit
    /\ fmt = FmtIdle
    /\ rnd = RndIdle
    /\ opt = OptIdle
    /\ \E m \in SolveMaps, avs \in SolveLists :
         probe = [pc |-> "solve",
                  arg |-> [value_map |-> m, additional_variables |-> avs],
                  out |-> <<>>]

\* out.loop: the value map and the rows when the for loop ends (or raises);
\* out.final: build_solutions_map's result
SolveCall ==
    /\ probe.pc = "solve"
    /\ probe' = [probe EXCEPT
                   !.pc = "solve done",
                   !.out = [loop |-> SolveAll(1, probe.arg.additional_variables,
                                              [value_map |-> probe.arg.value_map,
                                               rows |-> <<>>, raised |-> FALSE,
                                               error |-> ""]),
                            final |-> build_solutions_map(1, probe.arg.additional_variables,
                                                          probe.arg.value_map)]]
    /\ UNCHANGED <<variables, additional, issues, used, user_answers, assigned, session,
                   resp, made, rand_calls, edits, fmt, rnd, opt, cre, workers>>

SolveNext == SolveCall

SpecSolve == SolveInit /\ [][SolveNext]_vars

\* the names of the formula of the i-th additional variable are names of numbers of
\* the map given, or names of additional variables before it
ResolvedAt(i) ==
    LET avs == probe.arg.additional_variables
        expr == Sympify(avs[i].formula)
        base == { k \in DOMAIN probe.arg.value_map :
                    ~IsSplitKey(k) /\ probe.arg.value_map[k].k = "num" }
        earlier == { avs[j].name : j \in 1..(i - 1) }
    IN  {expr.l, expr.r} \subseteq base \cup earlier

\* C18: evaluator canonicalization.  The value build_solutions_map stores in the value
\* map for an additional variable is a number with at most 4 decimals, at most half
\* of 0.0001 away from the formula's value, written without a decimal point when it
\* is integer-valued; the map it leaves has that same string.
C18_EvaluatorCanonicalization ==
    probe.pc = "solve done" =>
        \A i \in DOMAIN probe.arg.additional_variables :
           LET add_var == probe.arg.additional_variables[i]
               m == probe.out.loop.value_map
               exact == Evaluate(Sympify(add_var.formula), probe.arg.value_map)
           IN  add_var.name \in DOMAIN m =>
                 /\ m[add_var.name].k = "num"
                 /\ m[add_var.name].v % RoundStep = 0
                 /\ m[add_var.name].f
                      = (IF m[add_var.name].v % FloatUnit = 0 THEN "int" ELSE "dec")
                 /\ exact.ok =>
                      2 * Abs(m[add_var.name].v - exact.v) <= RoundStep
                 /\ ~probe.out.final.raised =>
                      probe.out.final.value_map[add_var.name] = m[add_var.name]

\* "a*b" with a = 4 and b = 2.5 gave "10"
C18_Witness ==
    /\ probe.pc = "solve done"
    /\ probe.arg.additional_variables = <<AddVar(1, "c", "a*b")>>
    /\ probe.arg.value_map[<<"a">>] = Num(8, "int")
    /\ probe.arg.value_map[<<"b">>] = Num(5, "dec")
    /\ probe.out.loop.value_map[<<"c">>] = NumStr(10 * One, "int")
    /\ probe.out.final.value_map[<<"c">>] = NumStr(10 * One, "int")

\* "a*b" with a = 4 and b = 0.00012 gave "0.0005": the result was rounded
RoundedResultReached ==
    /\ probe.pc = "solve done"
    /\ probe.arg.additional_variables = <<AddVar(1, "c", "a*b")>>
    /\ probe.arg.value_map[<<"a">>] = Num(8, "int")
    /\ probe.arg.value_map[<<"b">>] = NumStr(12, "dec")
    /\ probe.out.loop.value_map[<<"c">>] = NumStr(50, "dec")

\* C20: sequential evaluation.  build_solutions_map evaluates the additional variables
\* in order and each value is in the map the later formulas are evaluated over: when
\* every formula names only numbers of the map given and additional variables before
\* it, no formula fails, and "c+a" after c is the stored value of c plus a.
C20_SequentialEvaluation ==
    probe.pc = "solve done" =>
        LET avs == probe.arg.additional_variables
            m == probe.out.loop.value_map
        IN  /\ (\A i \in DOMAIN avs : ResolvedAt(i)) =>
                 /\ ~probe.out.loop.raised
                 /\ \A i \in DOMAIN avs : avs[i].name \in DOMAIN m
                 /\ [i \in DOMAIN avs |-> probe.out.loop.rows[i].variable_name]
                      = [i \in DOMAIN avs |-> avs[i].name]
            /\ \A i \in DOMAIN avs :
                  /\ \A j \in 1..i : ResolvedAt(j)
                  /\ avs[i].formula = "c+a"
                  => /\ avs[i].name \in DOMAIN m
                     /\ m[avs[i].name].v = m[<<"c">>].v + probe.arg.value_map[<<"a">>].v

\* e = c + a was evaluated after c = a * b with a = 4, b = 2.5: e is "14"
C20_Witness ==
    /\ probe.pc = "solve done"
    /\ probe.arg.additional_variables = <<AddVar(1, "c", "a*b"), AddVar(2, "e", "c+a")>>
    /\ probe.arg.value_map[<<"a">>] = Num(8, "int")
    /\ probe.arg.value_map[<<"b">>] = Num(5, "dec")
    /\ ~probe.out.loop.raised
    /\ probe.out.loop.value_map[<<"e">>] = NumStr(14 * One, "int")

----------------------------------------------------------------------------
(* Specification SpecDup: build_answer_options over the AnswerOptions of   *)
(* one task and the value map of the task's variables.                     *)

\* "1", "1.0", "2", "2.5"
DupValues == { Num(2, "int"), Num(2, "dec"), Num(4, "int"), Num(5, "dec") }

\* the Variables a and b of the task, in no uniqueness group
DupVariables ==
    { << [id |-> 1, task |-> 1, name |-> <<"a">>, original_value |-> va, choices |-> <<>>,
          min_value |-> 0, max_value |-> 0, step |-> 0,
          unique_group |-> NoGroup, split_sign |-> FALSE],
         [id |-> 2, task |-> 1, name |-> <<"b">>, original_value |-> vb, choices |-> <<>>,
          min_value |-> 0, max_value |-> 0, step |-> 0,
          unique_group |-> NoGroup, split_sign |-> FALSE] >> :
      va \in DupValues, vb \in DupValues }

\* AnswerOption.content: {{a}}, {{b}}, {{a}}{{b}}, {{zz}} and the numeric text a*b
DupContents ==
    { [text |-> "{{}}", holes |-> <<<<"a">>>>],
      [text |-> "{{}}", holes |-> <<<<"b">>>>],
      [text |-> "{{}}{{}}", holes |-> <<<<"a">>, <<"b">>>>],
      [text |-> "{{}}", holes |-> <<<<"zz">>>>],
      [text |-> "a*b", holes |-> <<>>] }

\* the two AnswerOption rows of the task: rows with different contents
DupOptions ==
    { << [id |-> 1, task |-> 1, content |-> p[1], is_correct |-> TRUE,
          display_format |-> IF p[1].holes = <<>> THEN "numeric" ELSE "symbolic"],
         [id |-> 2, task |-> 1, content |-> p[2], is_correct |-> FALSE,
          display_format |-> IF p[2].holes = <<>> THEN "numeric" ELSE "symbolic"] >> :
      p \in { q \in DupContents \X DupContents : q[1] # q[2] } }

DupInit ==
    /\ StoreInit
    /\ fmt = FmtIdle
    /\ rnd = RndIdle
    /\ opt = OptIdle
    /\ \E vs \in DupVariables, opts \in DupOptions :
         probe = [pc |-> "options",
                  arg |-> [variables |-> vs, answer_options_db |-> opts,
                           value_map |-> format_value_map(BaseMap(vs, EmptyMap))],
                  out |-> <<>>]

DupCall ==
    /\ probe.pc = "options"
    /\ \E l \in build_answer_options(probe.arg.answer_options_db, probe.arg.value_map) :
         probe' = [probe EXCEPT !.pc = "options done", !.out = l]
    /\ UNCHANGED <<variables, additional, issues, used, user_answers, assigned, session,
                   resp, made, rand_calls, edits, fmt, rnd, opt, cre, workers>>

DupNext == DupCall

SpecDup == DupInit /\ [][DupNext]_vars

\* C22 (no duplicate answers for a task): the contents build_answer_options computes
\* for the AnswerOptions of one task from the task's variable values are pairwise
\* different.
C22_NoDuplicateAnswers ==
    probe.pc = "options done" =>
        \A i, j \in DOMAIN probe.out :
            i # j => probe.out[i].content # probe.out[j].content

\* options whose contents name variables of different values are told apart
DupDistinctValuesDistinctContents ==
    probe.pc = "options done" =>
        \A i, j \in DOMAIN probe.out :
            (/\ i # j
             /\ Len(probe.out[i].content.vals) = 1
             /\ Len(probe.out[j].content.vals) = 1
             /\ probe.out[i].content.vals # probe.out[j].content.vals)
            => probe.out[i].content # probe.out[j].content

----------------------------------------------------------------------------
(* Specification SpecFmt: format_value_map applied once and twice to       *)
(* value maps drawn from a bounded set.                                    *)

\* bound: the values of the drawn maps are 0, 1/2, 1, ... MaxHalf/2 and their negatives
MaxHalf == 3

Half == FloatUnit \div 2

FmtValues ==
    { NumStr(h * Half, f) : h \in (0 - MaxHalf)..MaxHalf, f \in {"dec", "raw"} }
    \cup { NumStr(h * Half, "int") : h \in { x \in (0 - MaxHalf)..MaxHalf : x % 2 = 0 } }
    \cup { NanStr("dec"), NanStr("raw"), TxtStr("abc"), EmptyStr }

FmtKeys == { <<"a">>, <<"a", "_abs">>, <<"b", "_sign">> }

FmtMaps ==
    UNION { [D -> FmtValues] : D \in (SUBSET FmtKeys) \ {{}} }

FmtInit ==
    /\ StoreInit
    /\ probe = ProbeIdle
    /\ rnd = RndIdle
    /\ opt = OptIdle
    /\ \E m \in FmtMaps :
         fmt = [pc |-> "drawn", given |-> m, m |-> m, once |-> EmptyMap,
                twice |-> EmptyMap]

FmtOnce ==
    /\ fmt.pc = "drawn"
    /\ fmt' = [fmt EXCEPT !.pc = "once", !.once = format_value_map(fmt.m),
                          !.m = MappingAfterFormat(fmt.m)]
    /\ UNCHANGED <<variables, additional, issues, used, user_answers, assigned, session,
                   resp, made, rand_calls, edits, rnd, opt,
                   cre, probe, workers>>

FmtTwice ==
    /\ fmt.pc = "once"
    /\ fmt' = [fmt EXCEPT !.pc = "twice", !.twice = format_value_map(fmt.once),
                          !.m = MappingAfterFormat(fmt.once)]
    /\ UNCHANGED <<variables, additional, issues, used, user_answers, assigned, session,
                   resp, made, rand_calls, edits, rnd, opt,
                   cre, probe, workers>>

FmtNext == FmtOnce \/ FmtTwice

SpecFmt == FmtInit /\ [][FmtNext]_vars

\* C6: formatting a formatted value map changes nothing:
\* format_value_map(format_value_map(m)) = format_value_map(m)
C6_IdempotentFormatting ==
    fmt.pc = "twice" => fmt.twice = fmt.once

\* a map with a non-canonical integer-valued number and a skipped key was formatted twice
C6_Witness ==
    /\ fmt.pc = "twice"
    /\ \E k \in DOMAIN fmt.given : ~IsSplitKey(k) /\ fmt.given[k].k = "num"
                                   /\ fmt.given[k].f # "int" /\ is_integer(fmt.given[k])
    /\ \E k \in DOMAIN fmt.given : IsSplitKey(k)
    /\ fmt.once # fmt.given

\* C19: format_value_map has no side effect.  The mapping the caller passed in is
\* after the call what it was before it.
C19_FormatHasNoSideEffect ==
    fmt.pc \in {"once", "twice"} => fmt.m = fmt.given

\* what the call does to the caller's mapping: its keys stay, and it is left equal to
\* the mapping returned
FormatLeavesReturnedMapping ==
    /\ fmt.pc = "once" => fmt.m = fmt.once /\ DOMAIN fmt.m = DOMAIN fmt.given
    /\ fmt.pc = "twice" => fmt.m = fmt.twice /\ DOMAIN fmt.m = DOMAIN fmt.given
====
